---------------------------- MODULE Spec2Model ----------------------------
(***************************************************************************)
(* EchoVision voice command dispatcher (src/api.py, command) with the      *)
(* collaborators it drives: DocumentProcessor (src/src/                    *)
(* document_processor.py), BookmarkManager (src/src/bookmarks.py) and      *)
(* search_files (src/src/fuzzy_search.py).                                 *)
(*                                                                         *)
(* Text is modelled as TLA+ strings and every test the code makes on text  *)
(* (substring membership, lower(), strip(), replace(), endswith(), the     *)
(* digit regex) is computed character by character.                        *)
(***************************************************************************)
EXTENDS Integers, Sequences, FiniteSets, TLC

(***************************************************************************)
(* Python string primitives                                                *)
(***************************************************************************)

\* Python's None where the code returns an optional int.
None == -1

Min(a, b) == IF a <= b THEN a ELSE b

Max(a, b) == IF a >= b THEN a ELSE b

Char(s, i) == SubSeq(s, i, i)

\* k in c   (str.__contains__)
Contains(k, c) ==
    \E i \in 1..(Len(c) - Len(k) + 1) : SubSeq(c, i, i + Len(k) - 1) = k

\* any(k in c for k in ks)
AnyIn(ks, c) == \E k \in ks : Contains(k, c)

\* s.endswith(suf)
EndsWith(s, suf) ==
    Len(suf) <= Len(s) /\ SubSeq(s, Len(s) - Len(suf) + 1, Len(s)) = suf

\* s.startswith(p)
StartsWith(s, p) == Len(p) <= Len(s) /\ SubSeq(s, 1, Len(p)) = p

UpperAlpha == "ABCDEFGHIJKLMNOPQRSTUVWXYZ"

LowerAlpha == "abcdefghijklmnopqrstuvwxyz"

Digits == "0123456789"

LowerChar(ch) ==
    IF \E i \in 1..Len(UpperAlpha) : Char(UpperAlpha, i) = ch
    THEN Char(LowerAlpha, CHOOSE i \in 1..Len(UpperAlpha) : Char(UpperAlpha, i) = ch)
    ELSE ch

\* s.lower()
Lower(s) ==
    LET F[i \in 0..Len(s)] ==
            IF i = 0 THEN "" ELSE F[i - 1] \o LowerChar(Char(s, i))
    IN  F[Len(s)]

IsSpace(ch) == ch \in {" ", "\n", "\t"}

\* s.strip()
Strip(s) ==
    LET keep == {i \in 1..Len(s) : ~IsSpace(Char(s, i))}
    IN  IF keep = {} THEN ""
        ELSE SubSeq(s, CHOOSE i \in keep : \A j \in keep : i <= j,
                       CHOOSE i \in keep : \A j \in keep : j <= i)

\* s.replace(old, new) for a non-empty old: every occurrence, left to right.
Replace(s, old, new) ==
    LET F[i \in 1..(Len(s) + 1)] ==
            IF i > Len(s) THEN ""
            ELSE IF i + Len(old) - 1 <= Len(s) /\ SubSeq(s, i, i + Len(old) - 1) = old
                 THEN new \o F[i + Len(old)]
                 ELSE Char(s, i) \o F[i + 1]
    IN  F[1]

\* s.replace(old, "")
Remove(s, old) == Replace(s, old, "")

\* len(s) in the place of len(s.split())
WordCountOfChars(s) == Len(s)

\* len(s.split()): the number of maximal runs of non-space characters.
WordCount(s) ==
    Cardinality({i \in 1..Len(s) :
        /\ ~IsSpace(Char(s, i))
        /\ (i = 1 \/ IsSpace(Char(s, i - 1)))})

IsDigit(ch) == \E i \in 1..Len(Digits) : Char(Digits, i) = ch

DigitVal(ch) == (CHOOSE i \in 1..Len(Digits) : Char(Digits, i) = ch) - 1

\* \w of the re module on the lower-cased ASCII text the dispatcher sees.
IsWordChar(ch) ==
    \/ IsDigit(ch)
    \/ ch = "_"
    \/ \E i \in 1..Len(LowerAlpha) : Char(LowerAlpha, i) = ch
    \/ \E i \in 1..Len(UpperAlpha) : Char(UpperAlpha, i) = ch

\* int(s) for a string of digits
ParseInt(s) ==
    LET F[i \in 0..Len(s)] ==
            IF i = 0 THEN 0 ELSE 10 * F[i - 1] + DigitVal(Char(s, i))
    IN  F[Len(s)]

\* re.search(r'\b(\d+)\b', text): the leftmost maximal run of digits that has
\* no word character on either side; None when there is none.
DigitRuns(text) ==
    {r \in (1..Len(text)) \X (1..Len(text)) :
        /\ r[1] <= r[2]
        /\ \A i \in r[1]..r[2] : IsDigit(Char(text, i))
        /\ (r[1] = 1 \/ ~IsWordChar(Char(text, r[1] - 1)))
        /\ (r[2] = Len(text) \/ ~IsWordChar(Char(text, r[2] + 1)))}

ReSearchNumber(text) ==
    LET runs == DigitRuns(text)
    IN  IF runs = {} THEN None
        ELSE LET r == CHOOSE x \in runs : \A y \in runs : x[1] <= y[1]
             IN  ParseInt(SubSeq(text, r[1], r[2]))

(***************************************************************************)
(* Paths (os.path)                                                         *)
(***************************************************************************)

\* os.path.join(d, f)
Join(d, f) == d \o "/" \o f

LastIndexOf(s, ch) ==
    LET hits == {i \in 1..Len(s) : Char(s, i) = ch}
    IN  IF hits = {} THEN 0 ELSE CHOOSE i \in hits : \A j \in hits : j <= i

\* os.path.basename(path)
Basename(path) == SubSeq(path, LastIndexOf(path, "/") + 1, Len(path))

\* os.path.splitext(path): the extension starts at the last dot of the basename,
\* unless that dot leads the basename.
SplitExt(path) ==
    LET base == Basename(path)
        dot  == LastIndexOf(base, ".")
        lead == IF \E i \in 1..Len(base) : Char(base, i) # "."
                THEN (CHOOSE i \in 1..Len(base) :
                        /\ Char(base, i) # "."
                        /\ \A j \in 1..(i - 1) : Char(base, j) = ".") - 1
                ELSE Len(base)
    IN  IF dot > lead
        THEN <<SubSeq(path, 1, Len(path) - (Len(base) - dot + 1)),
               SubSeq(base, dot, Len(base))>>
        ELSE <<path, "">>

(***************************************************************************)
(* Sorting: list.sort(key=..., reverse=True) is stable, so equal keys keep *)
(* their order.  key is a sequence of integers, one per element.           *)
(***************************************************************************)

\* A sequence written as a function of its index, as a tuple.
List(f) == SubSeq(f, 1, Len(f))

\* The index sequence of xs ordered by key descending, ties by position.
SortedIndicesDesc(key) ==
    LET n == Len(key)
        k == List(key)
        Before(i, j) == k[i] > k[j] \/ (k[i] = k[j] /\ i < j)
        Rank(i) == Cardinality({j \in 1..n : Before(j, i)}) + 1
    IN  List([r \in 1..n |-> CHOOSE i \in 1..n : Rank(i) = r])

SortDescBy(xs, key) ==
    LET idx == SortedIndicesDesc(key)
    IN  List([r \in 1..Len(xs) |-> xs[idx[r]]])

\* sorted(xs, key=lambda x: x["score"], reverse=True)
SortDescByScore(xs) == SortDescBy(xs, [i \in 1..Len(xs) |-> xs[i].score])

\* xs[:n]
Take(xs, n) == SubSeq(xs, 1, Min(n, Len(xs)))

\* xs[a:b] with 0-based Python slice bounds, 0 <= a
Slice(xs, a, b) == SubSeq(xs, a + 1, Min(b, Len(xs)))

Flatten(seqs) ==
    LET F[i \in 0..Len(seqs)] == IF i = 0 THEN <<>> ELSE F[i - 1] \o seqs[i]
    IN  F[Len(seqs)]

(***************************************************************************)
(* Bounds of the model                                                     *)
(***************************************************************************)

\* Entries of the VoiceRead_Docs folder that may exist (a prefix of DeskEntries).
DeskMax == 7

\* Documents loaded in one run (DocumentProcessor.next_file_id grows with each).
MaxLoads == 1

\* Bookmarks saved in one run.
MaxBookmarks == 1

\* The largest limit search_files is called with on its own.
MaxLimit == 3

\* Operations on the document set made in one run of the DocumentProcessor.
MaxOps == 3

\* Calls of SpeechEngine.speak made in one run.
MaxSpeaks == 2

(***************************************************************************)
(* The file system the program reads.  Directory listings are in           *)
(* os.listdir / os.walk order.  The content of a file is what its format   *)
(* loader extracts: the word count of each raw page (0: a page without     *)
(* text) and the raw page at which the loader raises (0: it does not).     *)
(***************************************************************************)

VOICE_DOCS_DIR == "VoiceRead_Docs"

UserHome == "home"

DeskEntries ==
    << [name |-> "Report.pdf",            mtime |-> 50],
       [name |-> "cover.png",             mtime |-> 95],
       [name |-> "Notes.docx",            mtime |-> 70],
       [name |-> "thesis.doc",            mtime |-> 60],
       [name |-> "scan.pdf",              mtime |-> 40],
       [name |-> "Annual Report 2024.pdf", mtime |-> 30],
       [name |-> "chapter one.pdf",       mtime |-> 65],
       [name |-> "budget.docx",           mtime |-> 20],
       [name |-> "report_final.PDF",      mtime |-> 10],
       [name |-> "slides.pdf",            mtime |-> 80] >>

DeskSizes == {n \in {0, 4, 6, DeskMax} : n <= Len(DeskEntries)}

DeskNames(n) == List([i \in 1..n |-> DeskEntries[i].name])

\* The directories that exist, each with its sub-directories and files.
FileSystem(desk_n) ==
    [d \in {VOICE_DOCS_DIR,
            Join(UserHome, "Documents"),
            Join(Join(UserHome, "Documents"), "archive"),
            Join(Join(UserHome, "Documents"), ".cache"),
            Join(UserHome, "Downloads"),
            Join(Join(UserHome, "Downloads"), "node_modules")} |->
        CASE d = VOICE_DOCS_DIR ->
                [dirs |-> <<>>, files |-> DeskNames(desk_n)]
          [] d = Join(UserHome, "Documents") ->
                [dirs |-> <<"archive", ".cache">>,
                 files |-> <<"presentaton_guide.pdf", "journal.txt">>]
          [] d = Join(Join(UserHome, "Documents"), "archive") ->
                [dirs |-> <<>>, files |-> <<"journal.txt", "Field Guide.epub">>]
          [] d = Join(Join(UserHome, "Documents"), ".cache") ->
                [dirs |-> <<>>, files |-> <<"hidden guide.pdf">>]
          [] d = Join(UserHome, "Downloads") ->
                [dirs |-> <<"node_modules">>, files |-> <<"setup.exe">>]
          [] OTHER ->
                [dirs |-> <<>>, files |-> <<"readme.txt">>]]

\* BASE_DIR (api.py, line 23) is the directory the server is installed in.
\* Here it lies below the user's Downloads, so that the designated folder is
\* reached from a well-known directory as well.
InstalledBelowDownloads == Join(Join(UserHome, "Downloads"), "sashank")

\* The file system of that installation.
InstalledFileSystem(desk_n) ==
    [d \in {Join(InstalledBelowDownloads, VOICE_DOCS_DIR),
            InstalledBelowDownloads,
            Join(UserHome, "Documents"),
            Join(Join(UserHome, "Documents"), "archive"),
            Join(UserHome, "Downloads"),
            Join(Join(UserHome, "Downloads"), "node_modules")} |->
        CASE d = Join(InstalledBelowDownloads, VOICE_DOCS_DIR) ->
                [dirs |-> <<>>, files |-> DeskNames(desk_n)]
          [] d = InstalledBelowDownloads ->
                [dirs |-> <<VOICE_DOCS_DIR, "src">>, files |-> <<"api.py">>]
          [] d = Join(UserHome, "Documents") ->
                [dirs |-> <<"archive">>,
                 files |-> <<"presentaton_guide.pdf", "journal.txt">>]
          [] d = Join(Join(UserHome, "Documents"), "archive") ->
                [dirs |-> <<>>, files |-> <<"journal.txt", "Field Guide.epub">>]
          [] d = Join(UserHome, "Downloads") ->
                [dirs |-> <<"node_modules", "sashank">>, files |-> <<"setup.exe">>]
          [] OTHER ->
                [dirs |-> <<>>, files |-> <<"readme.txt">>]]

\* os.path.exists(d) for a directory
DirExists(fs, d) == d \in DOMAIN fs

\* os.path.getmtime(path) if os.path.exists(path) else 0
MTime(path) ==
    LET hits == {i \in 1..Len(DeskEntries) :
                    Join(VOICE_DOCS_DIR, DeskEntries[i].name) = path}
    IN  IF hits = {} THEN 0 ELSE DeskEntries[CHOOSE i \in hits : TRUE].mtime

\* What the format loader finds in the file.
Content(path) ==
    LET b == Basename(path)
    IN  CASE b = "Report.pdf"            -> [raw |-> <<120, 0, 260>>, raises_at |-> 0]
          [] b = "Notes.docx"            -> [raw |-> <<40, 610>>,     raises_at |-> 0]
          [] b = "thesis.doc"            -> [raw |-> <<>>,            raises_at |-> 1]
          [] b = "scan.pdf"              -> [raw |-> <<0, 0>>,        raises_at |-> 0]
          [] b = "slides.pdf"            -> [raw |-> <<15, 20, 25>>,  raises_at |-> 3]
          [] b = "presentaton_guide.pdf" -> [raw |-> <<300, 301>>,    raises_at |-> 0]
          [] b = "journal.txt"           -> [raw |-> <<600, 5>>,      raises_at |-> 0]
          [] b = "Field Guide.epub"      -> [raw |-> <<0>>,           raises_at |-> 0]
          [] b = "budget.docx"           -> [raw |-> <<>>,            raises_at |-> 0]
          [] OTHER                       -> [raw |-> <<10>>,          raises_at |-> 0]

\* Every file name and every path of the file system.
KnownFiles ==
    {DeskEntries[i].name : i \in 1..Len(DeskEntries)}
    \cup UNION {{FileSystem(0)[d].files[i] : i \in 1..Len(FileSystem(0)[d].files)} :
                    d \in DOMAIN FileSystem(0)}

KnownPaths ==
    {Join(VOICE_DOCS_DIR, DeskEntries[i].name) : i \in 1..Len(DeskEntries)}
    \cup UNION {{Join(d, FileSystem(0)[d].files[i]) : i \in 1..Len(FileSystem(0)[d].files)} :
                    d \in DOMAIN FileSystem(0)}

\* os.path.basename(p), os.path.splitext(p)[1].lower() and the content of p,
\* for every path of the file system.
PathFacts ==
    [p \in KnownPaths |->
        [basename |-> Basename(p),
         ext      |-> Lower(SplitExt(p)[2]),
         content  |-> Content(p)]]

(***************************************************************************)
(* DocumentProcessor (src/src/document_processor.py)                       *)
(***************************************************************************)

\* None for file_path, doc_type and BookmarkManager._current_file
NoPath == "<None>"

\* self.collection = None
NoCollection == [live |-> FALSE, docs |-> <<>>]

CHUNK_SIZE == 300

OVERLAP == 50

\* DocumentProcessor.__init__
NewDocumentProcessor ==
    [pages         |-> <<>>,
     loaded_files  |-> <<>>,
     next_file_id  |-> 1,
     current_page  |-> 0,
     file_path     |-> NoPath,
     doc_type      |-> NoPath,
     title         |-> "Untitled Document",
     collection    |-> NoCollection]

\* range(0, n, step) as a sequence
RangeStep(n, step) ==
    List([k \in 1..((n + step - 1) \div step) |-> (k - 1) * step])

\* The chunks of one page: a window of CHUNK_SIZE words every
\* CHUNK_SIZE - OVERLAP words; none for a page without words.
PageChunks(page) ==
    LET n      == page.text.words
        starts == RangeStep(n, CHUNK_SIZE - OVERLAP)
    IN  List([k \in 1..Len(starts) |->
            [page  |-> page.index,
             label |-> page.label,
             src   |-> page.text.src,
             no    |-> page.text.no,
             start |-> starts[k],
             size  |-> Min(starts[k] + CHUNK_SIZE, n) - starts[k]]])

\* _build_vector_index: the collection is deleted and created again, then
\* filled with the chunks of every page; any failure of the embedding index
\* leaves self.collection = None.
BuildVectorIndex(d, chroma_ok) ==
    IF chroma_ok
    THEN [d EXCEPT !.collection =
            [live |-> TRUE,
             docs |-> Flatten([i \in 1..Len(d.pages) |-> PageChunks(d.pages[i])])]]
    ELSE [d EXCEPT !.collection = NoCollection]

LabelPrefix(ext) == IF ext = ".pdf" THEN "Page " ELSE "Section "

\* _load_pdf and its siblings: the raw pages with text, in order, indexed from
\* the length of self.pages at entry; reading stops where the loader raises.
\* file is the entry of PathFacts for the path that is read.
LoadedPages(file, start_idx, file_id) ==
    LET c    == file.content
        last == IF c.raises_at = 0 THEN Len(c.raw) ELSE c.raises_at - 1
        keep == SelectSeq([i \in 1..last |-> i], LAMBDA i : c.raw[i] > 0)
    IN  List([k \in 1..Len(keep) |->
            [index   |-> start_idx + keep[k] - 1,
             text    |-> [src |-> file.basename, no |-> keep[k],
                          words |-> c.raw[keep[k]]],
             label   |-> LabelPrefix(file.ext) \o ToString(start_idx + keep[k]),
             file_id |-> file_id]])

SupportedExt == {".pdf", ".docx", ".doc", ".epub", ".txt"}

DocTypeOf(ext) ==
    CASE ext = ".pdf"  -> "PDF"
      [] ext = ".epub" -> "EPUB"
      [] ext = ".txt"  -> "TXT"
      [] OTHER         -> "DOCX"

\* ext.upper().replace('.', '')
FileTypeOf(ext) ==
    CASE ext = ".pdf"  -> "PDF"
      [] ext = ".docx" -> "DOCX"
      [] ext = ".doc"  -> "DOC"
      [] ext = ".epub" -> "EPUB"
      [] ext = ".txt"  -> "TXT"
      [] OTHER         -> ""

\* DocumentProcessor.load on the file found at filepath:
\* <<processor after the call, returned bool>>
LoadFile(d, filepath, file, append, chroma_ok) ==
    LET ext       == file.ext
        new_title == file.basename
        d1 == IF ~append
              THEN [d EXCEPT !.pages = <<>>, !.loaded_files = <<>>,
                             !.current_page = 0, !.file_path = filepath,
                             !.title = new_title]
              ELSE IF d.title # "Untitled Document" /\ Len(d.loaded_files) > 0
                   THEN [d EXCEPT !.title = "Multiple Files ("
                                     \o ToString(Len(d.loaded_files) + 1) \o ")"]
                   ELSE [d EXCEPT !.title = new_title]
        current_file_id == d1.next_file_id
        d2 == [d1 EXCEPT !.next_file_id = @ + 1]
        start_pages_len == Len(d2.pages)
        d3 == [d2 EXCEPT !.pages = @ \o LoadedPages(file, start_pages_len,
                                                    current_file_id)]
        d4 == [d3 EXCEPT
                 !.doc_type = IF ~append THEN DocTypeOf(ext) ELSE "Mixed",
                 !.loaded_files = Append(@,
                    [id         |-> current_file_id,
                     path       |-> filepath,
                     name       |-> new_title,
                     type       |-> FileTypeOf(ext),
                     page_count |-> Len(d3.pages) - start_pages_len])]
    IN  IF ext \notin SupportedExt THEN <<d2, FALSE>>
        ELSE IF file.content.raises_at # 0 THEN <<d3, FALSE>>
        ELSE IF Len(d4.pages) > 0 THEN <<BuildVectorIndex(d4, chroma_ok), TRUE>>
        ELSE <<d4, FALSE>>

\* DocumentProcessor.load: <<processor after the call, returned bool>>
Load(d, filepath, append, chroma_ok) ==
    LoadFile(d, filepath, PathFacts[filepath], append, chroma_ok)

\* DocumentProcessor.unload(delete_file=False): <<processor, returned bool>>.
\* The collection is dropped unless the embedding index fails to delete it.
Unload(d, chroma_ok) ==
    <<[d EXCEPT !.collection   = IF d.collection # NoCollection /\ chroma_ok
                                 THEN NoCollection ELSE @,
                !.pages        = <<>>,
                !.loaded_files = <<>>,
                !.current_page = 0,
                !.file_path    = NoPath,
                !.doc_type     = NoPath,
                !.title        = "Untitled Document"],
      TRUE>>

\* RemoveFile without the reset of a current page that is out of bounds.
RemoveFileKeepsPage(d, file_id, chroma_ok) ==
    LET remaining == SelectSeq(d.loaded_files, LAMBDA f : f.id # file_id)
        kept      == SelectSeq(d.pages, LAMBDA p : p.file_id # file_id)
        pages     == List([i \in 1..Len(kept) |-> [kept[i] EXCEPT !.index = i - 1]])
        d1 == [d EXCEPT
                 !.loaded_files = remaining,
                 !.pages        = pages,
                 !.title        = IF Len(remaining) = 1 THEN remaining[1].name
                                  ELSE "Multiple Files ("
                                       \o ToString(Len(remaining)) \o ")",
                 !.doc_type     = IF Len(remaining) = 1 THEN remaining[1].type
                                  ELSE "Mixed"]
    IN  IF Len(remaining) = Len(d.loaded_files) THEN <<d, FALSE>>
        ELSE IF Len(d.loaded_files) = 1 THEN Unload(d, chroma_ok)
        ELSE <<BuildVectorIndex(d1, chroma_ok), TRUE>>

\* DocumentProcessor.remove_file(file_id, delete_file=False):
\* <<processor, returned bool>>
RemoveFile(d, file_id, chroma_ok) ==
    LET remaining == SelectSeq(d.loaded_files, LAMBDA f : f.id # file_id)
        kept      == SelectSeq(d.pages, LAMBDA p : p.file_id # file_id)
        pages     == List([i \in 1..Len(kept) |-> [kept[i] EXCEPT !.index = i - 1]])
        d1 == [d EXCEPT
                 !.loaded_files = remaining,
                 !.pages        = pages,
                 !.current_page = IF @ >= Len(pages)
                                  THEN Max(0, Len(pages) - 1) ELSE @,
                 !.title        = IF Len(remaining) = 1 THEN remaining[1].name
                                  ELSE "Multiple Files ("
                                       \o ToString(Len(remaining)) \o ")",
                 !.doc_type     = IF Len(remaining) = 1 THEN remaining[1].type
                                  ELSE "Mixed"]
    IN  IF Len(remaining) = Len(d.loaded_files) THEN <<d, FALSE>>
        ELSE IF Len(d.loaded_files) = 1 THEN Unload(d, chroma_ok)
        ELSE <<BuildVectorIndex(d1, chroma_ok), TRUE>>

\* len(text) of a piece of text of so many words: the words of the modelled
\* files have five letters and stand one blank apart.
CharsOf(words) == IF words = 0 THEN 0 ELSE 6 * words - 1

\* A string is modelled by the pieces it is made of, each with its length:
\* text taken from a page of a file, from the word at start on, or a
\* separator.
Piece(src, no, start, chars) == [src |-> src, no |-> no, start |-> start, chars |-> chars]

\* sep.join(texts)
JoinPieces(texts, sep) ==
    List([i \in 1..(IF Len(texts) = 0 THEN 0 ELSE 2 * Len(texts) - 1) |->
            IF i % 2 = 1 THEN texts[(i + 1) \div 2]
            ELSE Piece(sep, 0, 0, Len(sep))])

\* s[:max_chars], 0 <= max_chars
TakeChars(pieces, max_chars) ==
    LET Before[i \in 1..(Len(pieces) + 1)] ==
            IF i = 1 THEN 0 ELSE Before[i - 1] + pieces[i - 1].chars
        n == Cardinality({i \in 1..Len(pieces) : Before[i] < max_chars})
    IN  List([i \in 1..n |->
            [pieces[i] EXCEPT !.chars = Min(@, max_chars - Before[i])]])

\* DocumentProcessor.get_full_text(max_chars)
GetFullText(d, max_chars) ==
    TakeChars(JoinPieces(List([i \in 1..Len(d.pages) |->
                            Piece(d.pages[i].text.src, d.pages[i].text.no, 0,
                                  CharsOf(d.pages[i].text.words))]),
                         "\n\n"),
              max_chars)

\* What a call returns to its caller: a value, or an exception.
Returned(value) == [raised |-> FALSE, value |-> value]

Raised == [raised |-> TRUE, value |-> <<>>]

\* What the embedding index does in one call of get_relevant_context:
\* count() raises or not; query() raises, returns no documents, or returns
\* n_results chunks, which the ranking takes from the front or from the
\* back of the collection.
ChromaOutcomes ==
    [count_ok : {TRUE}, query : {"raises", "empty", "front", "back"}]
    \cup [count_ok : {FALSE}, query : {"raises"}]

\* get_relevant_context with a fallback of 50,000 characters.
GetRelevantContextLongFallback(d, query, n_results, chroma) ==
    LET docs == d.collection.docs
        k    == Min(n_results, Len(docs))
        top  == IF chroma.query = "front" THEN Take(docs, k)
                ELSE List([i \in 1..k |-> docs[Len(docs) + 1 - i]])
    IN  IF d.collection = NoCollection THEN Returned(GetFullText(d, 50000))
        ELSE IF ~chroma.count_ok THEN Raised
        ELSE IF Len(docs) = 0 THEN Returned(GetFullText(d, 50000))
        ELSE IF k = 0 THEN Returned(<<>>)
        ELSE IF chroma.query \in {"raises", "empty"}
             THEN Returned(GetFullText(d, 50000))
        ELSE Returned(JoinPieces(List([i \in 1..k |->
                          Piece(top[i].src, top[i].no, top[i].start,
                                CharsOf(top[i].size))]),
                      "\n...\n"))

\* DocumentProcessor.get_relevant_context(query, n_results), 0 <= n_results
GetRelevantContext(d, query, n_results, chroma) ==
    LET docs == d.collection.docs
        k    == Min(n_results, Len(docs))
        top  == IF chroma.query = "front" THEN Take(docs, k)
                ELSE List([i \in 1..k |-> docs[Len(docs) + 1 - i]])
    IN  IF d.collection = NoCollection THEN Returned(GetFullText(d, 10000))
        ELSE IF ~chroma.count_ok THEN Raised
        ELSE IF Len(docs) = 0 THEN Returned(GetFullText(d, 10000))
        ELSE IF k = 0 THEN Returned(<<>>)
        ELSE IF chroma.query \in {"raises", "empty"}
             THEN Returned(GetFullText(d, 10000))
        ELSE Returned(JoinPieces(List([i \in 1..k |->
                          Piece(top[i].src, top[i].no, top[i].start,
                                CharsOf(top[i].size))]),
                      "\n...\n"))

\* DocumentProcessor.page_count
PageCount(d) == Len(d.pages)

\* DocumentProcessor.get_page
GetPage(d, index) ==
    IF 0 <= index /\ index < Len(d.pages) THEN <<d.pages[index + 1].text>> ELSE <<>>

\* DocumentProcessor.get_current_text
GetCurrentText(d) == GetPage(d, d.current_page)

\* DocumentProcessor.get_current_label
GetCurrentLabel(d) ==
    IF 0 <= d.current_page /\ d.current_page < Len(d.pages)
    THEN d.pages[d.current_page + 1].label
    ELSE "Unknown"

\* DocumentProcessor.next_page
NextPage(d) ==
    IF d.current_page < Len(d.pages) - 1
    THEN [d EXCEPT !.current_page = @ + 1]
    ELSE d

\* DocumentProcessor.prev_page
PrevPage(d) ==
    IF d.current_page > 0 THEN [d EXCEPT !.current_page = @ - 1] ELSE d

\* go_to_page taking index as a page number counted from one.
GoToPageFromOne(d, index) ==
    IF 1 <= index /\ index <= Len(d.pages)
    THEN [d EXCEPT !.current_page = index]
    ELSE d

\* DocumentProcessor.go_to_page
GoToPage(d, index) ==
    IF 0 <= index /\ index < Len(d.pages)
    THEN [d EXCEPT !.current_page = index]
    ELSE d

(***************************************************************************)
(* BookmarkManager (src/src/bookmarks.py)                                  *)
(***************************************************************************)

\* BookmarkManager.__init__, with an empty data directory
NewBookmarkManager ==
    [bookmarks    |-> <<>>,
     current_file |-> NoPath,
     disk         |-> <<>>]

\* dict lookup with a default, and dict assignment, on a function
DictGet(f, k, default) == IF k \in DOMAIN f THEN f[k] ELSE default

DictSet(f, k, v) == [x \in (DOMAIN f) \cup {k} |-> IF x = k THEN v ELSE f[x]]

\* BookmarkManager._bookmark_path
BookmarkPath(filepath) ==
    Replace(Replace(Basename(filepath), " ", "_"), ".", "_") \o "_bookmarks.json"

\* _bookmark_path of every path of the file system
BookmarkPaths == [p \in KnownPaths |-> BookmarkPath(p)]

\* BookmarkManager.set_document
SetDocument(b, filepath) ==
    [b EXCEPT !.current_file = filepath,
              !.bookmarks = DictSet(@, filepath,
                                DictGet(b.disk, BookmarkPaths[filepath], <<>>))]

\* BookmarkManager.get_bookmarks
GetBookmarks(b) == DictGet(b.bookmarks, b.current_file, <<>>)

\* BookmarkManager.add_bookmark
AddBookmark(b, page_index, label) ==
    IF b.current_file = NoPath THEN b
    ELSE LET bms  == DictGet(b.bookmarks, b.current_file, <<>>)
             hits == {i \in 1..Len(bms) : bms[i].page = page_index}
             new  == IF hits # {}
                     THEN LET i == CHOOSE h \in hits : \A g \in hits : h <= g
                          IN  [bms EXCEPT ![i].label = label, ![i].note = ""]
                     ELSE Append(bms, [page |-> page_index, label |-> label,
                                       note |-> ""])
         IN  [b EXCEPT !.bookmarks = DictSet(@, b.current_file, new),
                       !.disk = DictSet(@, BookmarkPaths[b.current_file], new)]

(***************************************************************************)
(* search_files (src/src/fuzzy_search.py)                                  *)
(***************************************************************************)

SkippedDirs == {"node_modules", ".git", "__pycache__"}

DocumentSuffixes == {".pdf", ".docx", ".doc", ".epub", ".txt"}

\* file.lower().endswith(suffixes)
HasSuffix(file, suffixes) == \E suf \in suffixes : EndsWith(Lower(file), suf)

\* WalkFiles without the pruning of hidden directories.
WalkFilesHidden(fs, search_dir) ==
    LET Walk[root \in DOMAIN fs] ==
            LET files == SelectSeq(fs[root].files,
                                   LAMBDA f : HasSuffix(f, DocumentSuffixes))
                dirs  == SelectSeq(fs[root].dirs,
                                   LAMBDA d : /\ d \notin SkippedDirs
                                              /\ DirExists(fs, Join(root, d)))
            IN  [i \in 1..Len(files) |-> Join(root, files[i])]
                \o Flatten([i \in 1..Len(dirs) |-> Walk[Join(root, dirs[i])]])
    IN  IF DirExists(fs, search_dir) THEN Walk[search_dir] ELSE <<>>

\* os.walk(search_dir), top down, with the pruning of dirs[:] and the filter
\* on document suffixes: the paths collected in all_files, in walk order.
WalkFiles(fs, search_dir) ==
    LET Walk[root \in DOMAIN fs] ==
            LET files == SelectSeq(fs[root].files,
                                   LAMBDA f : HasSuffix(f, DocumentSuffixes))
                dirs  == SelectSeq(fs[root].dirs,
                                   LAMBDA d : /\ ~StartsWith(d, ".")
                                              /\ d \notin SkippedDirs
                                              /\ DirExists(fs, Join(root, d)))
            IN  [i \in 1..Len(files) |-> Join(root, files[i])]
                \o Flatten([i \in 1..Len(dirs) |-> Walk[Join(root, dirs[i])]])
    IN  IF DirExists(fs, search_dir) THEN Walk[search_dir] ELSE <<>>

\* file_basenames = {os.path.basename(f): f for f in all_files}: one entry per
\* basename, in the order of its first occurrence, holding its last path.
FileBasenames(all_files) ==
    LET n     == Len(all_files)
        first == SelectSeq([i \in 1..n |-> i],
                     LAMBDA i : \A j \in 1..(i - 1) :
                                  Basename(all_files[j]) # Basename(all_files[i]))
    IN  List([k \in 1..Len(first) |->
            [name |-> Basename(all_files[first[k]]),
             path |-> all_files[CHOOSE j \in 1..n :
                        /\ Basename(all_files[j]) = Basename(all_files[first[k]])
                        /\ \A m \in (j + 1)..n :
                             Basename(all_files[m]) # Basename(all_files[j])]]])

\* The fuzzy scorer (thefuzz, fuzz.token_set_ratio) is a library outside the
\* repository: it returns an integer in 0..100.  Three scorers stand for it.
ScorerProfiles == {"low", "near", "all"}

NearPairs ==
    { <<"presentation guide", "presentaton_guide.pdf">>,
      <<"presentation guide", "Field Guide.epub">>,
      <<"report", "report_final.PDF">>,
      <<"journal", "journal.txt">> }

\* token_set_ratio is 100 when the words of the query are among the words of
\* the choice, in any order.
TokenSetPairs ==
    { <<"guide field", "Field Guide.epub">>,
      <<"final report", "report_final.PDF">> }

Scorer(profile, query, choice) ==
    CASE profile = "low"    -> 20
      [] profile = "near"   -> IF <<query, choice>> \in NearPairs THEN 87 ELSE 20
      [] profile = "tokens" -> IF <<query, choice>> \in TokenSetPairs THEN 100 ELSE 20
      [] OTHER              -> 60

\* process.extractBests(query, choices, scorer=..., limit=n): the choices with
\* their scores, best first, at most n of them.
ExtractBests(profile, query, choices, n) ==
    LET scored == List([i \in 1..Len(choices) |->
                     [match |-> choices[i], score |-> Scorer(profile, query, choices[i])]])
    IN  Take(SortDescByScore(scored), n)

\* search_files, lines 24-69: the matches among the files the walk collected.
\* file_basenames holds one entry per basename (the dict of line 26).
MatchFiles(profile, target_filename, file_basenames, limit) ==
    LET target_lower == Lower(target_filename)
        PathOf(name) == file_basenames[CHOOSE i \in 1..Len(file_basenames) :
                                           file_basenames[i].name = name].path
        exact   == SelectSeq(file_basenames,
                       LAMBDA e : Contains(target_lower, Lower(e.name)))
        results == List([i \in 1..Len(exact) |->
                       [filename |-> exact[i].name, path |-> exact[i].path,
                        score |-> 100]])
        passing == SelectSeq(
                       ExtractBests(profile, target_filename,
                           List([i \in 1..Len(file_basenames) |-> file_basenames[i].name]),
                           limit * 3),
                       LAMBDA m : /\ Len(m.match) >= 3
                                  /\ m.score > 35
                                  /\ \A i \in 1..Len(exact) :
                                       exact[i].path # PathOf(m.match))
        fuzzy   == List([i \in 1..Min(Len(passing), limit - Len(exact)) |->
                       [filename |-> passing[i].match,
                        path     |-> PathOf(passing[i].match),
                        score    |-> passing[i].score]])
    IN  IF Len(exact) >= limit THEN Take(results, limit)
        ELSE SortDescByScore(results \o fuzzy)

\* search_files(target_filename, search_dir, limit)
SearchFiles(fs, profile, target_filename, search_dir, limit) ==
    IF Len(WalkFiles(fs, search_dir)) = 0 THEN <<>>
    ELSE MatchFiles(profile, target_filename,
                    FileBasenames(WalkFiles(fs, search_dir)), limit)

(***************************************************************************)
(* Voice command dispatch (src/api.py, command)                            *)
(***************************************************************************)

\* The texts a client may post to /api/command.
Utterances ==
    { "open other file", "Browse Computer and stop", "help", "help me stop",
      " STOP ", "pause", "cancel", "next", "continue", "next page",
      "previous", "go back", "previous page", "repeat names",
      "one", "Notes Two", "six", "seven", "number 3", "12", "banana", "open notes",
      "thesis", "chapter one", "annual report 2024",
      "search for presentation guide", "locate my journal", "open file",
      "read document", "go to page 2", "go to page three", "go to page",
      "go to page 0", "go to page 1", "go to page 9",
      "first page", "last page", "summarize",
      "brief summary", "detailed summary", "bookmark this", "go to bookmark",
      "my bookmark",
      "what is this about" }

\* What the Gemini CLI may answer for a search query c; get_filename_from_gemini
\* returns the query itself when the CLI is missing or fails.
GeminiAnswers(c) == {c, "presentation guide", "journal"}

BrowsePhrases ==
    {"open other file", "browse computer", "browse folders",
     "open different file", "open another file", "another file"}

StopPhrases == {"stop", "pause", "quiet"}

CancelPhrases == {"cancel", "nevermind"}

NextPhrases == {"next", "more", "continue", "next page"}

PreviousPhrases == {"previous", "back", "go back", "previous page"}

SearchPhrases == {"search for", "find my", "look for", "locate"}

RepeatPhrases == {"repeat", "say that again", "what were the options", "repeat names"}

OpenFilePhrases == {"open file", "upload document", "upload file", "open document"}

ReadPhrases == {"read document", "read page", "read this", "start reading"}

PrevPagePhrases == {"previous page", "prev page", "go back"}

BookmarkVerbs == {"add", "save", "mark", "this"}

\* The words dict of num_from, in insertion order.
NumberWords ==
    << <<"one", 1>>, <<"two", 2>>, <<"three", 3>>, <<"four", 4>>, <<"five", 5>>,
       <<"six", 6>>, <<"seven", 7>>, <<"eight", 8>>, <<"nine", 9>>, <<"ten", 10>>,
       <<"eleven", 11>>, <<"twelve", 12>>, <<"fifteen", 15>>, <<"twenty", 20>> >>

\* num_from(text): the first number word of the dict that occurs in the text,
\* else the digit regex, else None.
num_from(text) ==
    LET hits == {i \in 1..Len(NumberWords) : Contains(NumberWords[i][1], text)}
    IN  IF hits # {}
        THEN NumberWords[CHOOSE i \in hits : \A j \in hits : i <= j][2]
        ELSE ReSearchNumber(text)

\* The words dict of VoiceAssistant._extract_number, in insertion order.
ExtractNumberWords ==
    << <<"one", 1>>, <<"two", 2>>, <<"three", 3>>, <<"four", 4>>, <<"five", 5>>,
       <<"six", 6>>, <<"seven", 7>>, <<"eight", 8>>, <<"nine", 9>>, <<"ten", 10>>,
       <<"eleven", 11>>, <<"twelve", 12>>, <<"thirteen", 13>>, <<"fourteen", 14>>,
       <<"fifteen", 15>>, <<"sixteen", 16>>, <<"seventeen", 17>>,
       <<"eighteen", 18>>, <<"nineteen", 19>>, <<"twenty", 20>> >>

\* VoiceAssistant._extract_number(text)
extract_number(text) ==
    LET hits == {i \in 1..Len(ExtractNumberWords) :
                    Contains(ExtractNumberWords[i][1], text)}
    IN  IF hits # {}
        THEN ExtractNumberWords[CHOOSE i \in hits : \A j \in hits : i <= j][2]
        ELSE ReSearchNumber(text)

\* c = body.text.lower().strip()
Normalize(text) == Strip(Lower(text))

\* A field the returned dict does not carry.
Absent == "<absent>"

Response(action, message, tts_text, page_state, extra) ==
    [action |-> action, message |-> message, tts_text |-> tts_text,
     page_state |-> page_state, extra |-> extra]

\* page_state()
page_state(d) ==
    <<[page  |-> d.current_page,
       total |-> PageCount(d),
       label |-> GetCurrentLabel(d),
       text  |-> GetCurrentText(d)]>>

\* The name as it is spoken in a listing (lines 460, 475, 542, 559, 593).
SpokenName(name) == Remove(Remove(Remove(name, ".pdf"), ".docx"), ".doc")

SpokenNames == [name \in KnownFiles |-> SpokenName(name)]

\* The name as it is matched against the utterance (clean_name, line 487).
clean_name(name) ==
    Remove(Remove(Remove(Remove(Lower(name), ".pdf"), ".docx"), ".txt"), ".epub")

\* The numbered names of files[offset:offset+5].
ListingParts(files, offset) ==
    LET chunk == Slice(files, offset, offset + 5)
    IN  List([i \in 1..Len(chunk) |->
            ToString(offset + i) \o ": " \o SpokenNames[chunk[i].name] \o "."])

\* session_state at import; files_offset is read with .get(..., 0).
NewSession == [awaiting_file |-> FALSE, files |-> <<>>, files_offset |-> 0]

\* Every test the dispatcher makes on the text alone, in the order of the code.
Parse(text) ==
    LET c == Normalize(text)
    IN  [c                |-> c,
         browse           |-> AnyIn(BrowsePhrases, c),
         help             |-> Contains("help", c),
         stop             |-> AnyIn(StopPhrases, c),
         cancel           |-> AnyIn(CancelPhrases, c),
         next             |-> AnyIn(NextPhrases, c),
         previous         |-> AnyIn(PreviousPhrases, c),
         search           |-> AnyIn(SearchPhrases, c),
         repeat           |-> AnyIn(RepeatPhrases, c),
         open_file        |-> AnyIn(OpenFilePhrases, c),
         read             |-> AnyIn(ReadPhrases, c),
         next_page        |-> Contains("next page", c) \/ c = "next" \/ Contains("forward", c),
         prev_page        |-> AnyIn(PrevPagePhrases, c),
         goto_page        |-> Contains("go to page", c) \/ Contains("jump to page", c),
         first_page       |-> Contains("first page", c) \/ Contains("beginning", c),
         last_page        |-> Contains("last page", c) \/ Contains("end of", c),
         short_summary    |-> Contains("short summary", c) \/ Contains("brief summary", c),
         detailed_summary |-> Contains("detailed summary", c) \/ Contains("long summary", c),
         summary          |-> Contains("summarize", c) \/ Contains("summary", c),
         bookmark_add     |-> Contains("bookmark", c) /\ AnyIn(BookmarkVerbs, c),
         bookmark_goto    |-> Contains("go to bookmark", c) \/ Contains("my bookmark", c),
         words            |-> WordCount(c),
         n                |-> num_from(c),
         named            |-> {name \in KnownFiles : Contains(clean_name(name), c)}]

Parsed == [text \in Utterances |-> Parse(text)]

\* What one call of command leaves behind: the three singletons, the returned
\* dict and the paths doc.load was called with.
Outcome(s, d, b, result, loads) ==
    [session |-> s, doc |-> d, bm |-> b, result |-> result, loads |-> loads]

\* lines 408-415
OpenFileDialog(s, d, b) ==
    Outcome([s EXCEPT !.awaiting_file = FALSE], d, b,
        Response("open_file_dialog", "Opening computer file browser...",
                 <<"Opening your computer's file browser. Please use your screen reader to select a file.">>,
                 <<>>, <<>>),
        <<>>)

\* lines 433-434
HelpCommand(s, d, b) ==
    Outcome(s, d, b,
        Response("speak", "Commands: open file, read document, summarize, brief summary, detailed summary, next page, previous page, go to page N, bookmark this, go to bookmark, ask your question, export summary, stop.",
                 <<>>, <<>>, <<>>),
        <<>>)

\* lines 436-438
StopCommand(s, d, b) ==
    Outcome([s EXCEPT !.awaiting_file = FALSE], d, b,
        Response("stop", "Stopped.", <<>>, <<>>, <<>>), <<>>)

\* lines 444-446
CancelSelection(s, d, b) ==
    Outcome([s EXCEPT !.awaiting_file = FALSE], d, b,
        Response("speak", "Cancelled file selection.", <<"Okay, cancelled.">>,
                 <<>>, <<>>),
        <<>>)

\* The spoken listing of lines 457-462 and 472-477.
WindowListing(files, new_offset) ==
    <<"Reading files " \o ToString(new_offset + 1) \o " to "
        \o ToString(Min(new_offset + 5, Len(files))) \o ".">>
    \o ListingParts(files, new_offset)
    \o <<"Say the number, the name, or 'next' for more.">>

\* NextListing with the boundary test written new_offset > len(files).
NextListingPastEnd(s, d, b) ==
    LET new_offset == s.files_offset + 5
    IN  IF new_offset > Len(s.files)
        THEN Outcome(s, d, b,
                Response("speak", "You are at the end of the list. Say 'previous' to go back.",
                         <<"You are at the end of the list. Say 'previous' to go back.">>,
                         <<>>, <<>>),
                <<>>)
        ELSE Outcome([s EXCEPT !.files_offset = new_offset], d, b,
                Response("speak", "Listening for file selection...",
                         WindowListing(s.files, new_offset), <<>>, <<>>),
                <<>>)

\* NextListing without the test for the end of the list.
NextListingUnchecked(s, d, b) ==
    LET new_offset == s.files_offset + 5
    IN  Outcome([s EXCEPT !.files_offset = new_offset], d, b,
            Response("speak", "Listening for file selection...",
                     WindowListing(s.files, new_offset), <<>>, <<>>),
            <<>>)

\* NextListing that turns the page of the document as well.
NextListingTurnsPage(s, d, b) ==
    LET new_offset == s.files_offset + 5
    IN  IF new_offset >= Len(s.files)
        THEN Outcome(s, NextPage(d), b,
                Response("speak", "You are at the end of the list. Say 'previous' to go back.",
                         <<"You are at the end of the list. Say 'previous' to go back.">>,
                         <<>>, <<>>),
                <<>>)
        ELSE Outcome([s EXCEPT !.files_offset = new_offset], NextPage(d), b,
                Response("speak", "Listening for file selection...",
                         WindowListing(s.files, new_offset), <<>>, <<>>),
                <<>>)

\* lines 451-463
NextListing(s, d, b) ==
    LET new_offset == s.files_offset + 5
    IN  IF new_offset >= Len(s.files)
        THEN Outcome(s, d, b,
                Response("speak", "You are at the end of the list. Say 'previous' to go back.",
                         <<"You are at the end of the list. Say 'previous' to go back.">>,
                         <<>>, <<>>),
                <<>>)
        ELSE Outcome([s EXCEPT !.files_offset = new_offset], d, b,
                Response("speak", "Listening for file selection...",
                         WindowListing(s.files, new_offset), <<>>, <<>>),
                <<>>)

\* PreviousListing without the assignment to session_state["files_offset"].
PreviousListingNotStored(s, d, b) ==
    LET new_offset == Max(0, s.files_offset - 5)
    IN  IF s.files_offset = 0
        THEN Outcome(s, d, b,
                Response("speak", "You are at the beginning of the list. Say 'next' for more.",
                         <<"You are already at the beginning of the list. Say 'next' for more.">>,
                         <<>>, <<>>),
                <<>>)
        ELSE Outcome(s, d, b,
                Response("speak", "Listening for file selection...",
                         WindowListing(s.files, new_offset), <<>>, <<>>),
                <<>>)

\* lines 466-478
PreviousListing(s, d, b) ==
    LET new_offset == Max(0, s.files_offset - 5)
    IN  IF s.files_offset = 0
        THEN Outcome(s, d, b,
                Response("speak", "You are at the beginning of the list. Say 'next' for more.",
                         <<"You are already at the beginning of the list. Say 'next' for more.">>,
                         <<>>, <<>>),
                <<>>)
        ELSE Outcome([s EXCEPT !.files_offset = new_offset], d, b,
                Response("speak", "Listening for file selection...",
                         WindowListing(s.files, new_offset), <<>>, <<>>),
                <<>>)

\* SelectedFile with the ordinal accepted only inside a window of five.
SelectedFileInWindow(u, files) ==
    IF u.n # None /\ u.n # 0 /\ 1 <= u.n /\ u.n <= Min(5, Len(files))
    THEN <<files[u.n]>>
    ELSE LET hits == {i \in 1..Len(files) : files[i].name \in u.named}
         IN  IF hits = {} THEN <<>>
             ELSE <<files[CHOOSE i \in hits : \A j \in hits : i <= j]>>

\* lines 481-490: the selected file, as a sequence of at most one element.
SelectedFile(u, files) ==
    IF u.n # None /\ u.n # 0 /\ 1 <= u.n /\ u.n <= Len(files)
    THEN <<files[u.n]>>
    ELSE LET hits == {i \in 1..Len(files) : files[i].name \in u.named}
         IN  IF hits = {} THEN <<>>
             ELSE <<files[CHOOSE i \in hits : \A j \in hits : i <= j]>>

\* lines 492-505: loaded is what doc.load(selected_file["path"]) returned.
OpenSelected(s1, b, selected_file, loaded) ==
    IF loaded[2]
    THEN Outcome([s1 EXCEPT !.awaiting_file = FALSE, !.files = <<>>],
            loaded[1],
            SetDocument(b, selected_file.path),
            Response("file_loaded",
                "Opened " \o selected_file.name \o ". Say 'read document' to start.",
                <<"Opened " \o selected_file.name \o ". You can say 'read document' or 'summarize'.">>,
                page_state(loaded[1]),
                <<loaded[1].title, loaded[1].doc_type>>),
            <<selected_file.path>>)
    ELSE Outcome(s1, loaded[1], b,
            Response("error", "Could not load " \o selected_file.name \o ".",
                <<"Sorry, there was an error loading the file.">>, <<>>, <<>>),
            <<selected_file.path>>)

\* SelectFile without line 480: awaiting_file is reset only by a successful load.
SelectFileResetOnSuccess(u, s, d, b, chroma_ok) ==
    IF SelectedFile(u, s.files) = <<>>
    THEN Outcome(s, d, b,
            Response("speak", "File not recognized. Please try say 'open file' again.",
                     <<"I didn't catch that. Please try saying open file again.">>,
                     <<>>, <<>>),
            <<>>)
    ELSE OpenSelected(s, b, SelectedFile(u, s.files)[1],
                      Load(d, SelectedFile(u, s.files)[1].path, FALSE, chroma_ok))

\* lines 480-507
SelectFile(u, s, d, b, chroma_ok) ==
    IF SelectedFile(u, s.files) = <<>>
    THEN Outcome([s EXCEPT !.awaiting_file = FALSE], d, b,
            Response("speak", "File not recognized. Please try say 'open file' again.",
                     <<"I didn't catch that. Please try saying open file again.">>,
                     <<>>, <<>>),
            <<>>)
    ELSE OpenSelected([s EXCEPT !.awaiting_file = FALSE], b, SelectedFile(u, s.files)[1],
                      Load(d, SelectedFile(u, s.files)[1].path, FALSE, chroma_ok))

\* lines 515-521, for the designated folder of line 395
SearchDirsOf(voice_docs_dir) ==
    <<Join(UserHome, "Documents"), Join(UserHome, "Downloads"),
      Join(UserHome, "Desktop"), voice_docs_dir>>

SearchDirs == SearchDirsOf(VOICE_DOCS_DIR)

\* TopMatches without the sort of line 529.
TopMatchesUnsorted(fs, search_dirs, profile, target) ==
    LET found_matches ==
            Flatten([i \in 1..Len(search_dirs) |->
                        IF DirExists(fs, search_dirs[i])
                        THEN SearchFiles(fs, profile, target, search_dirs[i], 2)
                        ELSE <<>>])
    IN  Take(found_matches, 5)

\* lines 523-530: search every existing directory with limit 2, sort the
\* merged matches by score and keep five.
TopMatches(fs, search_dirs, profile, target) ==
    LET found_matches ==
            Flatten([i \in 1..Len(search_dirs) |->
                        IF DirExists(fs, search_dirs[i])
                        THEN SearchFiles(fs, profile, target, search_dirs[i], 2)
                        ELSE <<>>])
    IN  Take(SortDescByScore(found_matches), 5)

SearchTargets ==
    UNION {GeminiAnswers(Parsed[t].c) : t \in {x \in Utterances : Parsed[x].search}}

TopMatchesOf ==
    [n \in DeskSizes |-> [profile \in ScorerProfiles |-> [target \in SearchTargets |->
        TopMatches(FileSystem(n), SearchDirs, profile, target)]]]

\* GlobalSearch without line 538: the offset of an earlier listing is kept.
GlobalSearchKeepsOffset(s, d, b, top_matches, target) ==
    IF Len(top_matches) = 0
    THEN Outcome(s, d, b,
            Response("speak", "No files found matching '" \o target \o "'.",
                     <<"I couldn't find any documents matching " \o target \o ".">>,
                     <<>>, <<>>),
            <<>>)
    ELSE Outcome([awaiting_file |-> TRUE,
                  files |-> List([i \in 1..Len(top_matches) |->
                                [name |-> top_matches[i].filename,
                                 path |-> top_matches[i].path]]),
                  files_offset |-> s.files_offset],
            d, b,
            Response("speak",
                "Found matching files. Say a number (1-" \o ToString(Len(top_matches))
                    \o ") to select.",
                <<"I found " \o ToString(Len(top_matches)) \o " matches for " \o target \o ".">>
                \o [i \in 1..Len(top_matches) |->
                       ToString(i) \o ": " \o SpokenNames[top_matches[i].filename] \o "."]
                \o <<"Which one would you like to open? Say the number, or say 'repeat names'.">>,
                <<>>, <<>>),
            <<>>)

\* lines 510-550
GlobalSearch(s, d, b, top_matches, target) ==
    IF Len(top_matches) = 0
    THEN Outcome(s, d, b,
            Response("speak", "No files found matching '" \o target \o "'.",
                     <<"I couldn't find any documents matching " \o target \o ".">>,
                     <<>>, <<>>),
            <<>>)
    ELSE Outcome([awaiting_file |-> TRUE,
                  files |-> List([i \in 1..Len(top_matches) |->
                                [name |-> top_matches[i].filename,
                                 path |-> top_matches[i].path]]),
                  files_offset |-> 0],
            d, b,
            Response("speak",
                "Found matching files. Say a number (1-" \o ToString(Len(top_matches))
                    \o ") to select.",
                <<"I found " \o ToString(Len(top_matches)) \o " matches for " \o target \o ".">>
                \o [i \in 1..Len(top_matches) |->
                       ToString(i) \o ": " \o SpokenNames[top_matches[i].filename] \o "."]
                \o <<"Which one would you like to open? Say the number, or say 'repeat names'.">>,
                <<>>, <<>>),
            <<>>)

\* lines 553-562
RepeatListing(s, d, b) ==
    Outcome(s, d, b,
        Response("speak", "Repeating options...",
                 <<"Here are the options again.">>
                 \o ListingParts(s.files, s.files_offset)
                 \o <<"Say the number or name to open.">>,
                 <<>>, <<>>),
        <<>>)

\* lines 567-580: the documents of VoiceRead_Docs, newest first.
FoundFiles(fs) ==
    IF ~DirExists(fs, VOICE_DOCS_DIR) THEN <<>>
    ELSE LET listed == SelectSeq(fs[VOICE_DOCS_DIR].files,
                           LAMBDA f : HasSuffix(f, {".pdf", ".docx", ".doc"}))
             found  == List([i \in 1..Len(listed) |->
                          [name |-> listed[i], path |-> Join(VOICE_DOCS_DIR, listed[i])]])
         IN  SortDescBy(found, [i \in 1..Len(found) |-> MTime(found[i].path)])

FoundFilesOf == [n \in DeskSizes |-> FoundFiles(FileSystem(n))]

\* LocalFolderSearch without the return of lines 582-583: a listing is
\* opened although no document was found.
LocalFolderSearchOpensEmpty(s, d, b, found_files) ==
    Outcome([awaiting_file |-> TRUE, files |-> found_files, files_offset |-> 0],
        d, b,
        Response("speak",
            "Listening for file selection (1-" \o ToString(Len(found_files)) \o ")...",
            <<"I found " \o ToString(Len(found_files)) \o " files on your study desk.">>
            \o ListingParts(found_files, 0)
            \o <<IF Len(found_files) > 5
                 THEN "Say the number, the name, say 'next', or say 'open other file' to browse your computer."
                 ELSE "Which one would you like to open? Say the number, the name, or say 'open other file' to browse your computer.">>,
            <<>>, <<>>),
        <<>>)

\* lines 565-601
LocalFolderSearch(s, d, b, found_files) ==
    IF Len(found_files) = 0
    THEN Outcome(s, d, b,
            Response("speak",
                "No documents found in VoiceRead_Docs folder. Say 'open other file' to browse your computer.",
                <<"I could not find any documents on your study desk. Say 'open other file' to browse your computer.">>,
                <<>>, <<>>),
            <<>>)
    ELSE Outcome([awaiting_file |-> TRUE, files |-> found_files, files_offset |-> 0],
            d, b,
            Response("speak",
                "Listening for file selection (1-" \o ToString(Len(found_files)) \o ")...",
                <<"I found " \o ToString(Len(found_files)) \o " files on your study desk.">>
                \o ListingParts(found_files, 0)
                \o <<IF Len(found_files) > 5
                     THEN "Say the number, the name, say 'next', or say 'open other file' to browse your computer."
                     ELSE "Which one would you like to open? Say the number, the name, or say 'open other file' to browse your computer.">>,
                <<>>, <<>>),
            <<>>)

\* lines 605-657: the commands on the loaded document.
DocumentCommand(u, s, d, b, ai_is_ready) ==
    IF PageCount(d) = 0
    THEN Outcome(s, d, b, Response("error", "No document loaded.", <<>>, <<>>, <<>>), <<>>)
    ELSE IF u.read
    THEN Outcome(s, d, b,
            Response("read", Absent, <<GetCurrentLabel(d), GetCurrentText(d)>>,
                     page_state(d), <<>>), <<>>)
    ELSE IF u.next_page
    THEN LET d1 == NextPage(d)
         IN  Outcome(s, d1, b,
                Response("navigate", GetCurrentLabel(d1), <<>>, page_state(d1), <<>>), <<>>)
    ELSE IF u.prev_page
    THEN LET d1 == PrevPage(d)
         IN  Outcome(s, d1, b,
                Response("navigate", GetCurrentLabel(d1), <<>>, page_state(d1), <<>>), <<>>)
    ELSE IF u.goto_page
    THEN LET d1 == IF u.n # None /\ u.n # 0 THEN GoToPage(d, u.n - 1) ELSE d
         IN  Outcome(s, d1, b,
                Response("navigate", GetCurrentLabel(d1), <<>>, page_state(d1), <<>>), <<>>)
    ELSE IF u.first_page
    THEN LET d1 == GoToPage(d, 0)
         IN  Outcome(s, d1, b, Response("navigate", Absent, <<>>, page_state(d1), <<>>), <<>>)
    ELSE IF u.last_page
    THEN LET d1 == GoToPage(d, PageCount(d) - 1)
         IN  Outcome(s, d1, b, Response("navigate", Absent, <<>>, page_state(d1), <<>>), <<>>)
    ELSE IF u.short_summary
    THEN Outcome(s, d, b,
            Response("stream_summary", Absent, <<>>, page_state(d), <<"short">>), <<>>)
    ELSE IF u.detailed_summary
    THEN Outcome(s, d, b,
            Response("stream_summary", Absent, <<>>, page_state(d), <<"detailed">>), <<>>)
    ELSE IF u.summary
    THEN Outcome(s, d, b,
            Response("stream_summary", Absent, <<>>, page_state(d), <<"medium">>), <<>>)
    ELSE IF u.bookmark_add
    THEN LET b1 == AddBookmark(b, d.current_page, GetCurrentLabel(d))
         IN  Outcome(s, d, b1,
                Response("bookmark", "Bookmarked: " \o GetCurrentLabel(d), <<>>, <<>>,
                         GetBookmarks(b1)), <<>>)
    ELSE IF u.bookmark_goto
    THEN LET bookmarks == GetBookmarks(b)
         IN  IF Len(bookmarks) > 0
             THEN LET bk == bookmarks[Len(bookmarks)]
                      d1 == GoToPage(d, bk.page)
                  IN  Outcome(s, d1, b,
                         Response("navigate", bk.label, <<>>, page_state(d1), <<>>), <<>>)
             ELSE Outcome(s, d, b,
                     Response("error", "No bookmarks saved.", <<>>, <<>>, <<>>), <<>>)
    ELSE IF u.words >= 2
    THEN IF ~ai_is_ready
         THEN Outcome(s, d, b,
                 Response("error", "Gemini API key not configured.", <<>>, <<>>, <<>>), <<>>)
         ELSE Outcome(s, d, b,
                 Response("stream_answer", Absent, <<>>, page_state(d), <<u.c>>), <<>>)
    ELSE Outcome(s, d, b,
            Response("error", "Command not recognized: " \o u.c, <<>>, <<>>, <<>>), <<>>)

\* What the environment decides during one call: the matches the global
\* search finds for the target the Gemini CLI answered (over the contents of
\* VoiceRead_Docs and the fuzzy scorers), the documents listed in
\* VoiceRead_Docs, and whether the embedding index can be rebuilt.
NoEnv == [target |-> "", top_matches |-> <<>>, found_files |-> <<>>, chroma_ok |-> TRUE]

\* The outcomes of lines 512-530 for the query c.
SearchOutcomes(c) ==
    {<<t, TopMatchesOf[n][p][t]>> : n \in DeskSizes, p \in ScorerProfiles, t \in GeminiAnswers(c)}

SearchOutcomesOf ==
    [c \in {Parsed[t].c : t \in {x \in Utterances : Parsed[x].search}} |-> SearchOutcomes(c)]

\* The outcomes of lines 567-580.
LocalListings == {FoundFilesOf[n] : n \in DeskSizes}

\* command with the stop test placed before the browse test.
commandStopFirst(u, s, d, b, ai_is_ready, env) ==
    IF u.stop THEN StopCommand(s, d, b)
    ELSE IF u.browse THEN OpenFileDialog(s, d, b)
    ELSE IF u.help THEN HelpCommand(s, d, b)
    ELSE IF s.awaiting_file
    THEN IF u.cancel THEN CancelSelection(s, d, b)
         ELSE IF u.next THEN NextListing(s, d, b)
         ELSE IF u.previous THEN PreviousListing(s, d, b)
         ELSE SelectFile(u, s, d, b, env.chroma_ok)
    ELSE IF u.search THEN GlobalSearch(s, d, b, env.top_matches, env.target)
    ELSE IF s.awaiting_file /\ u.repeat THEN RepeatListing(s, d, b)
    ELSE IF u.open_file THEN LocalFolderSearch(s, d, b, env.found_files)
    ELSE DocumentCommand(u, s, d, b, ai_is_ready)

\* command(body), lines 398-657, on the parsed text u
command(u, s, d, b, ai_is_ready, env) ==
    IF u.browse THEN OpenFileDialog(s, d, b)
    ELSE IF u.help THEN HelpCommand(s, d, b)
    ELSE IF u.stop THEN StopCommand(s, d, b)
    ELSE IF s.awaiting_file
    THEN IF u.cancel THEN CancelSelection(s, d, b)
         ELSE IF u.next THEN NextListing(s, d, b)
         ELSE IF u.previous THEN PreviousListing(s, d, b)
         ELSE SelectFile(u, s, d, b, env.chroma_ok)
    ELSE IF u.search THEN GlobalSearch(s, d, b, env.top_matches, env.target)
    ELSE IF s.awaiting_file /\ u.repeat THEN RepeatListing(s, d, b)
    ELSE IF u.open_file THEN LocalFolderSearch(s, d, b, env.found_files)
    ELSE DocumentCommand(u, s, d, b, ai_is_ready)

\* The choices of the environment that the call on u in session s can see.
Environments(u, s) ==
    IF u.browse \/ u.help \/ u.stop THEN {NoEnv}
    ELSE IF s.awaiting_file
    THEN IF u.cancel \/ u.next \/ u.previous \/ SelectedFile(u, s.files) = <<>>
         THEN {NoEnv}
         ELSE {[NoEnv EXCEPT !.chroma_ok = ok] : ok \in BOOLEAN}
    ELSE IF u.search
    THEN {[NoEnv EXCEPT !.target = r[1], !.top_matches = r[2]] : r \in SearchOutcomesOf[u.c]}
    ELSE IF u.open_file
    THEN {[NoEnv EXCEPT !.found_files = f] : f \in LocalListings}
    ELSE {NoEnv}

(***************************************************************************)
(* AISummarizer (src/src/ai_summarizer.py)                                  *)
(***************************************************************************)

\* The API keys the environment variable or a set_key request may carry.
ApiKeys == {"", "  ", "your_groq_api_key_here", " gsk_live "}

\* AISummarizer.__init__
NewAISummarizer == [client |-> FALSE, api_key |-> ""]

\* AISummarizer.set_api_key: <<summarizer after the call, returned bool>>;
\* groq_ok tells whether the Groq client could be constructed.
SetApiKeyOf(a, raw_key, groq_ok) ==
    LET key == Strip(raw_key)
    IN  IF key = "" \/ key = "your_groq_api_key_here" THEN <<a, FALSE>>
        ELSE IF groq_ok THEN <<[client |-> TRUE, api_key |-> key], TRUE>>
        ELSE <<NewAISummarizer, FALSE>>

\* AISummarizer.is_ready
IsReady(a) == a.client

\* message.content = None: a response of the Groq client without text
NoText == "<None>"

\* contextualize_query returning an empty query when the Groq client fails.
ContextualizeQueryFailsEmpty(a, question, history, groq) ==
    LET spoken   == SelectSeq(history, LAMBDA msg : msg.role \in {"user", "assistant"})
        messages == <<[role |-> "system", content |-> "You are a strict query reformulator."]>>
                    \o spoken
        kept     == IF Len(messages) > 5
                    THEN <<messages[1]>> \o SubSeq(messages, Len(messages) - 3, Len(messages))
                    ELSE messages
        request  == Append(kept, [role |-> "user", content |-> question])
    IN  IF ~IsReady(a) THEN [value |-> question, requests |-> <<>>]
        ELSE IF Len(history) = 0 THEN [value |-> question, requests |-> <<>>]
        ELSE IF groq.ok /\ groq.content # NoText
             THEN [value |-> Strip(groq.content), requests |-> <<request>>]
        ELSE [value |-> "", requests |-> <<request>>]

\* contextualize_query without the test for an empty history.
ContextualizeQueryAlwaysAsks(a, question, history, groq) ==
    LET spoken   == SelectSeq(history, LAMBDA msg : msg.role \in {"user", "assistant"})
        messages == <<[role |-> "system", content |-> "You are a strict query reformulator."]>>
                    \o spoken
        kept     == IF Len(messages) > 5
                    THEN <<messages[1]>> \o SubSeq(messages, Len(messages) - 3, Len(messages))
                    ELSE messages
        request  == Append(kept, [role |-> "user", content |-> question])
    IN  IF ~IsReady(a) THEN [value |-> question, requests |-> <<>>]
        ELSE IF groq.ok /\ groq.content # NoText
             THEN [value |-> Strip(groq.content), requests |-> <<request>>]
        ELSE [value |-> question, requests |-> <<request>>]

\* AISummarizer.contextualize_query(question, history): the string returned
\* and the requests made to the Groq client, which raises or answers with
\* groq.content; stripping a content of None raises inside the try block.
\* A history of None is the empty history.
ContextualizeQuery(a, question, history, groq) ==
    LET spoken   == SelectSeq(history, LAMBDA msg : msg.role \in {"user", "assistant"})
        messages == <<[role |-> "system", content |-> "You are a strict query reformulator."]>>
                    \o spoken
        kept     == IF Len(messages) > 5
                    THEN <<messages[1]>> \o SubSeq(messages, Len(messages) - 3, Len(messages))
                    ELSE messages
        request  == Append(kept, [role |-> "user", content |-> question])
    IN  IF ~IsReady(a) THEN [value |-> question, requests |-> <<>>]
        ELSE IF Len(history) = 0 THEN [value |-> question, requests |-> <<>>]
        ELSE IF groq.ok /\ groq.content # NoText
             THEN [value |-> Strip(groq.content), requests |-> <<request>>]
        ELSE [value |-> question, requests |-> <<request>>]

MAX_CONTEXT == 10000

\* What the Groq client does with a streaming request: the call raises, or
\* it returns a stream of deltas, some of them without content, that ends
\* or raises after the last of them.
GroqStreams ==
    [call_ok : {FALSE}, deltas : {<<>>}, ends : {FALSE}]
    \cup [call_ok : {TRUE},
          deltas  : {<<>>, <<NoText>>, <<"The budget ", NoText, "is 40.">>},
          ends    : BOOLEAN]

\* AISummarizer.ask(question, context_text, history), a generator: the
\* fragments it yields until it is exhausted and the requests made to the
\* Groq client.  The return of line 103 ends the generator without a
\* fragment.
AskStream(a, question, context_text, history, groq) ==
    LET spoken  == SelectSeq(history, LAMBDA msg : msg.role \in {"user", "assistant"})
        request == [document |-> TakeChars(context_text, MAX_CONTEXT),
                    messages |-> Append(spoken, [role |-> "user", content |-> question])]
        apology == "Could not answer: error"
        content == SelectSeq(groq.deltas, LAMBDA delta : delta # NoText)
    IN  IF ~IsReady(a) THEN [fragments |-> <<>>, requests |-> <<>>]
        ELSE IF ~groq.call_ok THEN [fragments |-> <<apology>>, requests |-> <<request>>]
        ELSE IF groq.ends THEN [fragments |-> content, requests |-> <<request>>]
        ELSE [fragments |-> Append(content, apology), requests |-> <<request>>]

(***************************************************************************)
(* The server: the module-level singletons of src/api.py and the requests   *)
(* that act on them.                                                        *)
(***************************************************************************)

VARIABLES
    session_state,  \* the dict session_state
    doc,            \* the DocumentProcessor singleton
    bm,             \* the BookmarkManager singleton
    ai,             \* the AISummarizer singleton
    probe           \* a call of a library function made on its own: its
                    \* arguments and, once it has returned, its result

vars == <<session_state, doc, bm, ai, probe>>

\* No library function is called on its own.
NoProbe == [fn |-> "none"]

\* Bookmarks held in memory over all documents.
BookmarkTotal(b) ==
    LET ks == DOMAIN b.bookmarks
        Count[S \in SUBSET ks] ==
            IF S = {} THEN 0
            ELSE LET k == CHOOSE x \in S : TRUE
                 IN  Len(b.bookmarks[k]) + Count[S \ {k}]
    IN  Count[ks]

\* Import of src/api.py, lines 36-45 and 394: fresh singletons, the API key
\* taken from the environment.
Init ==
    /\ session_state = NewSession
    /\ doc = NewDocumentProcessor
    /\ bm = NewBookmarkManager
    /\ \E key \in ApiKeys :
          ai = IF Strip(key) # "" /\ Strip(key) # "your_groq_api_key_here"
               THEN SetApiKeyOf(NewAISummarizer, key, TRUE)[1]
               ELSE NewAISummarizer
    /\ probe = NoProbe

\* The calls of command the model follows: a run loads at most MaxLoads
\* documents and saves at most MaxBookmarks bookmarks.
WithinBounds(d, out) ==
    /\ out.loads # <<>> => d.next_file_id <= MaxLoads
    /\ BookmarkTotal(out.bm) <= MaxBookmarks

\* The call command(body) with body.text = text, on the singletons as they are.
Call(text, env) == command(Parsed[text], session_state, doc, bm, IsReady(ai), env)

\* Every outcome that call can have.
Calls(text) == {Call(text, env) : env \in Environments(Parsed[text], session_state)}

\* POST /api/command
Command ==
    \E text \in Utterances :
        \E out \in Calls(text) :
                /\ WithinBounds(doc, out)
                /\ session_state' = out.session
                /\ doc' = out.doc
                /\ bm' = out.bm
                /\ UNCHANGED <<ai, probe>>

\* POST /api/set_key
SetApiKey ==
    \E key \in ApiKeys, groq_ok \in BOOLEAN :
        /\ ai' = SetApiKeyOf(ai, Strip(key), groq_ok)[1]
        /\ UNCHANGED <<session_state, doc, bm, probe>>

Next == Command \/ SetApiKey

Spec == Init /\ [][Next]_vars

(***************************************************************************)
(* The library functions called on their own: the arguments are drawn at   *)
(* the start and the call is made once.                                     *)
(***************************************************************************)

\* The names searched for: those a global search may be given, a word that
\* is part of file names in several directories, and a word that is part of
\* file names in the designated folder only.
ProbeTargets == SearchTargets \cup {"guide", "report", "guide field", "final report"}

\* The scorers search_files is applied with on its own.
ProbeProfiles == ScorerProfiles \cup {"tokens"}

\* search_files(target_filename, search_dir, limit) over a file system of
\* desk_n desk entries and one of the scorers; search_dir is a directory of
\* the file system or one that does not exist.
SearchProbes ==
    [fn : {"search_files"}, desk_n : DeskSizes, profile : ProbeProfiles,
     target_filename : ProbeTargets,
     search_dir : (DOMAIN FileSystem(0)) \cup {Join(UserHome, "Desktop")},
     limit : 0..MaxLimit, done : {FALSE}, result : {<<>>}]

\* The merge of a global search (api.py, lines 523-530) for a target, with
\* the server installed apart from the well-known directories or below one.
MergeProbes ==
    [fn : {"top_matches"}, base_dir : {"", InstalledBelowDownloads},
     desk_n : DeskSizes, profile : ScorerProfiles,
     target : ProbeTargets, done : {FALSE}, result : {<<>>}]

\* The chunking of one page by _build_vector_index (lines 262-275), for a
\* page of so many words: none, one, the stride, the window, and their
\* neighbours.
ChunkProbes ==
    [fn : {"page_chunks"},
     words : {0, 1, 120, CHUNK_SIZE - OVERLAP, CHUNK_SIZE - OVERLAP + 1,
              CHUNK_SIZE - 1, CHUNK_SIZE, CHUNK_SIZE + 1,
              2 * (CHUNK_SIZE - OVERLAP), 2 * CHUNK_SIZE + 10},
     done : {FALSE}, result : {<<>>}]

\* contextualize_query(question, history) with no history, one message, and
\* six messages of which one has another role; the Groq client answers or
\* raises.
ContextProbes ==
    [fn : {"contextualize_query"},
     question : {"", " what does it mean ", "why"},
     history : {<<>>,
                <<[role |-> "user", content |-> "what is the budget"]>>,
                <<[role |-> "user", content |-> "q1"],
                  [role |-> "assistant", content |-> "a1"],
                  [role |-> "tool", content |-> "t"],
                  [role |-> "user", content |-> "q2"],
                  [role |-> "assistant", content |-> "a2"],
                  [role |-> "user", content |-> "q3"]>>},
     groq : [ok : BOOLEAN, content : {" what does the budget mean \n", NoText}],
     done : {FALSE}, result : {<<>>}]

\* AISummarizer.ask(question, context_text, history) read to its end, for
\* every behaviour of the Groq client.
StreamProbes ==
    [fn : {"ask_stream"},
     question : {"what does it mean"},
     context_text : {<<>>, <<Piece("Report.pdf", 1, 0, CharsOf(120))>>},
     history : {<<>>, <<[role |-> "user", content |-> "what is the budget"]>>},
     groq : GroqStreams,
     done : {FALSE}, result : {<<>>}]

\* The English words for 1..20.
EnglishNumbers ==
    <<"one", "two", "three", "four", "five", "six", "seven", "eight", "nine",
      "ten", "eleven", "twelve", "thirteen", "fourteen", "fifteen", "sixteen",
      "seventeen", "eighteen", "nineteen", "twenty">>

\* The utterance of a number probe: a command, then the number word if there
\* is one, then the digits if there are any.
NumberText(word, digits) ==
    "go to page"
    \o (IF word = 0 THEN "" ELSE " " \o EnglishNumbers[word])
    \o (IF digits = "" THEN "" ELSE " " \o digits)

\* num_from and _extract_number on an utterance with the word for 1..20 or
\* none (0), and with digits or none.
NumberProbes ==
    [fn : {"extract_number"}, word : 0..20, digits : {"", "7", "12"},
     done : {FALSE}, result : {<<>>}]

\* The summarizer has its client or not where its methods are called.
LibraryInit ==
    /\ session_state = NewSession
    /\ doc = NewDocumentProcessor
    /\ bm = NewBookmarkManager
    /\ probe \in SearchProbes \cup MergeProbes \cup ChunkProbes \cup ContextProbes
                \cup StreamProbes \cup NumberProbes
    /\ ai \in IF probe.fn \in {"contextualize_query", "ask_stream"}
              THEN {NewAISummarizer, SetApiKeyOf(NewAISummarizer, " gsk_live ", TRUE)[1]}
              ELSE {NewAISummarizer}

\* search_files
SearchFilesCall ==
    /\ probe.fn = "search_files"
    /\ ~probe.done
    /\ probe' = [probe EXCEPT
                    !.done = TRUE,
                    !.result = SearchFiles(FileSystem(probe.desk_n), probe.profile,
                                   probe.target_filename, probe.search_dir,
                                   probe.limit)]
    /\ UNCHANGED <<session_state, doc, bm, ai>>

\* found_matches and top_matches of a global search
TopMatchesCall ==
    /\ probe.fn = "top_matches"
    /\ ~probe.done
    /\ probe' = [probe EXCEPT
                    !.done = TRUE,
                    !.result =
                        IF probe.base_dir = ""
                        THEN TopMatches(FileSystem(probe.desk_n), SearchDirs,
                                        probe.profile, probe.target)
                        ELSE TopMatches(InstalledFileSystem(probe.desk_n),
                                 SearchDirsOf(Join(probe.base_dir, VOICE_DOCS_DIR)),
                                 probe.profile, probe.target)]
    /\ UNCHANGED <<session_state, doc, bm, ai>>

\* the loop body of _build_vector_index for one page
PageChunksCall ==
    /\ probe.fn = "page_chunks"
    /\ ~probe.done
    /\ probe' = [probe EXCEPT
                    !.done = TRUE,
                    !.result = PageChunks([index |-> 0, label |-> "Page 1",
                                   text |-> [src |-> "page", no |-> 1,
                                             words |-> probe.words],
                                   file_id |-> 1])]
    /\ UNCHANGED <<session_state, doc, bm, ai>>

\* contextualize_query
ContextualizeQueryCall ==
    /\ probe.fn = "contextualize_query"
    /\ ~probe.done
    /\ probe' = [probe EXCEPT
                    !.done = TRUE,
                    !.result = ContextualizeQuery(ai, probe.question, probe.history,
                                   probe.groq)]
    /\ UNCHANGED <<session_state, doc, bm, ai>>

\* list(ask(question, context_text, history))
AskStreamCall ==
    /\ probe.fn = "ask_stream"
    /\ ~probe.done
    /\ probe' = [probe EXCEPT
                    !.done = TRUE,
                    !.result = AskStream(ai, probe.question, probe.context_text,
                                   probe.history, probe.groq)]
    /\ UNCHANGED <<session_state, doc, bm, ai>>

\* num_from(text) and _extract_number(text)
ExtractNumberCall ==
    /\ probe.fn = "extract_number"
    /\ ~probe.done
    /\ probe' = [probe EXCEPT
                    !.done = TRUE,
                    !.result = [api       |-> num_from(NumberText(probe.word, probe.digits)),
                                assistant |-> extract_number(
                                                 NumberText(probe.word, probe.digits))]]
    /\ UNCHANGED <<session_state, doc, bm, ai>>

LibraryNext ==
    \/ SearchFilesCall
    \/ TopMatchesCall
    \/ PageChunksCall
    \/ ContextualizeQueryCall
    \/ AskStreamCall
    \/ ExtractNumberCall

LibrarySpec == LibraryInit /\ [][LibraryNext]_vars

(***************************************************************************)
(* POST /api/ask: the guards of the handler, then the steps of the         *)
(* generator that the streaming response runs.                             *)
(***************************************************************************)

\* The processors an ask request meets: no document, a document with its
\* index, and a document whose index could not be built.
AskDocuments ==
    {NewDocumentProcessor,
     Load(NewDocumentProcessor, Join(VOICE_DOCS_DIR, "Report.pdf"), FALSE, TRUE)[1],
     Load(NewDocumentProcessor, Join(VOICE_DOCS_DIR, "Report.pdf"), FALSE, FALSE)[1]}

\* An ask request with its body, what the collaborators do while it is
\* served, the position of the handler, the values the generator holds, the
\* calls made so far and the fragments sent to the caller.
AskRequests ==
    [fn : {"ask"},
     question : {"what does it mean"},
     history : {<<>>,
                <<[role |-> "user", content |-> "what is the budget"],
                  [role |-> "tool", content |-> "t"],
                  [role |-> "assistant", content |-> "It is 40."]>>},
     groq : [ok : BOOLEAN, content : {" what does the budget mean \n", NoText}],
     chroma : ChromaOutcomes,
     stream : GroqStreams,
     pc : {"guards"},
     status : {0},
     standalone_question : {""},
     relevant_context : {<<>>},
     calls : {<<>>},
     pending : {<<>>},
     relayed : {<<>>}]

AskInit ==
    /\ session_state = NewSession
    /\ bm = NewBookmarkManager
    /\ ai \in {NewAISummarizer, SetApiKeyOf(NewAISummarizer, " gsk_live ", TRUE)[1]}
    /\ doc \in AskDocuments
    /\ probe \in AskRequests

\* lines 266-269
AskGuards ==
    /\ probe.fn = "ask" /\ probe.pc = "guards"
    /\ probe' = IF ~IsReady(ai) THEN [probe EXCEPT !.pc = "done", !.status = 503]
                ELSE IF PageCount(doc) = 0
                     THEN [probe EXCEPT !.pc = "done", !.status = 400]
                ELSE [probe EXCEPT !.pc = "contextualize", !.status = 200]
    /\ UNCHANGED <<session_state, doc, bm, ai>>

\* line 273
AskContextualize ==
    /\ probe.fn = "ask" /\ probe.pc = "contextualize"
    /\ \E r \in {ContextualizeQuery(ai, probe.question, probe.history, probe.groq)} :
          probe' = [probe EXCEPT
                      !.pc = "retrieve",
                      !.standalone_question = r.value,
                      !.calls = Append(@, [to       |-> "contextualize_query",
                                           question |-> probe.question,
                                           history  |-> probe.history])]
    /\ UNCHANGED <<session_state, doc, bm, ai>>

\* AskRetrieve with the question of the request as the query.
AskRetrieveOriginalQuestion ==
    /\ probe.fn = "ask" /\ probe.pc = "retrieve"
    /\ \E r \in {GetRelevantContext(doc, probe.question, 5, probe.chroma)} :
          probe' = [probe EXCEPT
                      !.pc = IF r.raised THEN "raised" ELSE "generate",
                      !.relevant_context = r.value,
                      !.calls = Append(@, [to        |-> "get_relevant_context",
                                           query     |-> probe.question,
                                           n_results |-> 5])]
    /\ UNCHANGED <<session_state, doc, bm, ai>>

\* line 276; an exception ends the generator
AskRetrieve ==
    /\ probe.fn = "ask" /\ probe.pc = "retrieve"
    /\ \E r \in {GetRelevantContext(doc, probe.standalone_question, 5, probe.chroma)} :
          probe' = [probe EXCEPT
                      !.pc = IF r.raised THEN "raised" ELSE "generate",
                      !.relevant_context = r.value,
                      !.calls = Append(@, [to        |-> "get_relevant_context",
                                           query     |-> probe.standalone_question,
                                           n_results |-> 5])]
    /\ UNCHANGED <<session_state, doc, bm, ai>>

\* line 279: the call of ai.ask
AskGenerate ==
    /\ probe.fn = "ask" /\ probe.pc = "generate"
    /\ probe' = [probe EXCEPT
                    !.pc = "relay",
                    !.pending = AskStream(ai, probe.question, probe.relevant_context,
                                    probe.history, probe.stream).fragments,
                    !.calls = Append(@, [to           |-> "ask",
                                         question     |-> probe.question,
                                         context_text |-> probe.relevant_context,
                                         history      |-> probe.history])]
    /\ UNCHANGED <<session_state, doc, bm, ai>>

\* lines 279-280: one turn of the loop, or its end
AskRelay ==
    /\ probe.fn = "ask" /\ probe.pc = "relay"
    /\ probe' = IF Len(probe.pending) = 0 THEN [probe EXCEPT !.pc = "done"]
                ELSE [probe EXCEPT !.pending = Tail(@),
                                   !.relayed = Append(@, Head(probe.pending))]
    /\ UNCHANGED <<session_state, doc, bm, ai>>

AskNext == AskGuards \/ AskContextualize \/ AskRetrieve \/ AskGenerate \/ AskRelay

AskSpec == AskInit /\ [][AskNext]_vars

(***************************************************************************)
(* A rebuild of the index and a retrieval running at the same time: the    *)
(* server runs its handlers on a pool of threads and the DocumentProcessor *)
(* holds no lock.  One thread runs load or remove_file on a document that  *)
(* is indexed, another runs get_relevant_context; each step below is one   *)
(* access to self.pages, to self.collection or to the embedding index.     *)
(***************************************************************************)

\* The processor before the operation: Report.pdf alone, or Report.pdf with
\* Notes.docx appended, indexed.
IndexedDocuments ==
    LET one == Load(NewDocumentProcessor, Join(VOICE_DOCS_DIR, "Report.pdf"),
                    FALSE, TRUE)[1]
    IN  {one, Load(one, Join(VOICE_DOCS_DIR, "Notes.docx"), TRUE, TRUE)[1]}

\* What the writer does to the processor d when it runs alone.
WriterOps(d) ==
    {Load(d, Join(VOICE_DOCS_DIR, "Notes.docx"), append, TRUE)[1] : append \in BOOLEAN}
    \cup {RemoveFile(d, 1, TRUE)[1]}

\* before and after are the processor as the writer found it and as it
\* leaves it; store tells whether the collection that self.collection refers
\* to still exists in the embedding index; k is the local of line 220.
RebuildInit ==
    /\ session_state = NewSession
    /\ bm = NewBookmarkManager
    /\ ai = NewAISummarizer
    /\ doc \in IndexedDocuments
    /\ \E after \in {d \in WriterOps(doc) : d.collection # NoCollection},
          n_results \in {1, 4}, ranking \in {"front", "back"} :
          probe = [fn |-> "rebuild", before |-> doc, after |-> after,
                   writer |-> "pages", store |-> "kept",
                   reader |-> "test", n_results |-> n_results,
                   ranking |-> ranking, k |-> 0, returned |-> Returned(<<>>)]

\* load, lines 37-79, or remove_file, lines 131-151: the page list and the
\* file list are replaced
WriterPages ==
    /\ probe.fn = "rebuild" /\ probe.writer = "pages"
    /\ doc' = [probe.after EXCEPT !.collection = doc.collection]
    /\ probe' = [probe EXCEPT !.writer = "delete"]
    /\ UNCHANGED <<session_state, bm, ai>>

\* _build_vector_index, line 248: delete_collection
RebuildDelete ==
    /\ probe.fn = "rebuild" /\ probe.writer = "delete"
    /\ probe' = [probe EXCEPT !.writer = "create", !.store = "deleted"]
    /\ UNCHANGED <<session_state, doc, bm, ai>>

\* lines 252-255: self.collection = create_collection(...)
RebuildCreate ==
    /\ probe.fn = "rebuild" /\ probe.writer = "create"
    /\ doc' = [doc EXCEPT !.collection = [live |-> TRUE, docs |-> <<>>]]
    /\ probe' = [probe EXCEPT !.writer = "add", !.store = "kept"]
    /\ UNCHANGED <<session_state, bm, ai>>

\* lines 262-281: the chunks are computed and added in one call
RebuildAdd ==
    /\ probe.fn = "rebuild" /\ probe.writer = "add"
    /\ doc' = BuildVectorIndex(doc, TRUE)
    /\ probe' = [probe EXCEPT !.writer = "done"]
    /\ UNCHANGED <<session_state, bm, ai>>

\* get_relevant_context, line 216; count() raises on a deleted collection
ReaderTest ==
    /\ probe.fn = "rebuild" /\ probe.reader = "test"
    /\ probe' = IF doc.collection = NoCollection
                THEN [probe EXCEPT !.reader = "done",
                                   !.returned = Returned(GetFullText(doc, 10000))]
                ELSE IF probe.store = "deleted"
                THEN [probe EXCEPT !.reader = "done", !.returned = Raised]
                ELSE IF Len(doc.collection.docs) = 0
                THEN [probe EXCEPT !.reader = "done",
                                   !.returned = Returned(GetFullText(doc, 10000))]
                ELSE [probe EXCEPT !.reader = "count"]
    /\ UNCHANGED <<session_state, doc, bm, ai>>

\* lines 220-222
ReaderCount ==
    /\ probe.fn = "rebuild" /\ probe.reader = "count"
    /\ probe' = IF probe.store = "deleted"
                THEN [probe EXCEPT !.reader = "done", !.returned = Raised]
                ELSE IF Min(probe.n_results, Len(doc.collection.docs)) = 0
                THEN [probe EXCEPT !.reader = "done", !.returned = Returned(<<>>)]
                ELSE [probe EXCEPT !.reader = "query",
                         !.k = Min(probe.n_results, Len(doc.collection.docs))]
    /\ UNCHANGED <<session_state, doc, bm, ai>>

\* lines 224-239; query raises on a deleted collection and returns no
\* documents from an empty one
ReaderQuery ==
    /\ probe.fn = "rebuild" /\ probe.reader = "query"
    /\ \E docs \in {doc.collection.docs} :
          \E k \in {Min(probe.k, Len(docs))} :
             \E top \in {IF probe.ranking = "front" THEN Take(docs, k)
                          ELSE List([i \in 1..k |-> docs[Len(docs) + 1 - i]])} :
                probe' = [probe EXCEPT
                            !.reader = "done",
                            !.returned =
                               IF probe.store = "deleted" \/ k = 0
                               THEN Returned(GetFullText(doc, 10000))
                               ELSE Returned(JoinPieces(List([i \in 1..k |->
                                        Piece(top[i].src, top[i].no, top[i].start,
                                              CharsOf(top[i].size))]),
                                    "\n...\n"))]
    /\ UNCHANGED <<session_state, doc, bm, ai>>

RebuildNext ==
    \/ WriterPages
    \/ RebuildDelete
    \/ RebuildCreate
    \/ RebuildAdd
    \/ ReaderTest
    \/ ReaderCount
    \/ ReaderQuery

RebuildSpec == RebuildInit /\ [][RebuildNext]_vars

(***************************************************************************)
(* SpeechEngine (src/src/speech_engine.py): speak and stop_speaking are    *)
(* called by the thread that serves the commands, and every speak starts   *)
(* a worker thread.  A text is the sequence of the lengths of its          *)
(* sentences.                                                              *)
(***************************************************************************)

\* SpeechEngine._split_sentences: the lengths of the chunks.  sentences are
\* the pieces the regular expression of line 141 cuts the text into.
SplitSentences(sentences) ==
    LET Run[i \in 0..Len(sentences)] ==
            IF i = 0 THEN <<<<>>, 0>>
            ELSE IF Run[i - 1][2] + 1 + sentences[i] >= 200
                 THEN <<Append(Run[i - 1][1], Run[i - 1][2] + sentences[i]), 0>>
                 ELSE <<Run[i - 1][1], Run[i - 1][2] + 1 + sentences[i]>>
        last   == Run[Len(sentences)]
        chunks == IF last[2] > 1 THEN Append(last[1], last[2] - 1) ELSE last[1]
    IN  IF chunks # <<>> THEN chunks ELSE <<0>>

\* The texts that are spoken: the help text of VoiceAssistant._cmd_help, a
\* short notice, and the empty text.
SpeechTexts ==
    { <<74, 45, 37, 47, 38, 42, 37, 58, 56, 38>>, <<20>>, <<0>> }

\* SpeechEngine.__init__ with a pyttsx3 engine: the stop flag, _speaking,
\* the holder of _tts_lock (0: free) and the worker threads started so far.
\* Of each worker: its position, its chunks, the chunk it is at, whether
\* stop_speaking was called since it was started, and whether it began to
\* speak a chunk after that.
SpeechInit ==
    /\ session_state = NewSession
    /\ doc = NewDocumentProcessor
    /\ bm = NewBookmarkManager
    /\ ai = NewAISummarizer
    /\ probe = [fn |-> "speech", stop_flag |-> FALSE, speaking |-> FALSE,
                tts_lock |-> 0, workers |-> <<>>]

\* speak(text), lines 60-65
Speak ==
    /\ Len(probe.workers) < MaxSpeaks
    /\ \E text \in SpeechTexts :
          probe' = [probe EXCEPT
                      !.stop_flag = FALSE,
                      !.speaking  = TRUE,
                      !.workers   = Append(@,
                          [pc |-> "start", chunks |-> SplitSentences(text), k |-> 1,
                           stopped |-> FALSE, late |-> FALSE])]
    /\ UNCHANGED <<session_state, doc, bm, ai>>

\* stop_speaking(), lines 67-80
StopSpeaking ==
    /\ probe' = [probe EXCEPT
                    !.stop_flag = TRUE,
                    !.speaking  = FALSE,
                    !.workers   = List([w \in 1..Len(probe.workers) |->
                                      [probe.workers[w] EXCEPT !.stopped = TRUE]])]
    /\ UNCHANGED <<session_state, doc, bm, ai>>

\* _speak_worker, lines 86-88, and the call of _speak_pyttsx3
SpeakWorkerStart ==
    /\ \E w \in 1..Len(probe.workers) :
          /\ probe.workers[w].pc = "start"
          /\ probe' = IF probe.stop_flag
                      THEN [probe EXCEPT !.speaking = FALSE,
                                         !.workers[w].pc = "done"]
                      ELSE [probe EXCEPT !.workers[w].pc = "lock"]
    /\ UNCHANGED <<session_state, doc, bm, ai>>

\* _speak_pyttsx3, line 101: with self._tts_lock
SpeakWorkerLock ==
    /\ probe.tts_lock = 0
    /\ \E w \in 1..Len(probe.workers) :
          /\ probe.workers[w].pc = "lock"
          /\ probe' = [probe EXCEPT !.tts_lock = w, !.workers[w].pc = "loop"]
    /\ UNCHANGED <<session_state, doc, bm, ai>>

\* _speak_pyttsx3, lines 102-104: the next chunk, and the test of the flag
SpeakWorkerCheck ==
    /\ \E w \in 1..Len(probe.workers) :
          /\ probe.workers[w].pc = "loop"
          /\ probe' = IF probe.workers[w].k > Len(probe.workers[w].chunks)
                         \/ probe.stop_flag
                      THEN [probe EXCEPT !.tts_lock = 0,
                                         !.workers[w].pc = "finish"]
                      ELSE [probe EXCEPT !.workers[w].pc = "say"]
    /\ UNCHANGED <<session_state, doc, bm, ai>>

\* _speak_pyttsx3, lines 106-107: the engine begins to speak the chunk
SpeakWorkerSay ==
    /\ \E w \in 1..Len(probe.workers) :
          /\ probe.workers[w].pc = "say"
          /\ probe' = [probe EXCEPT
                          !.workers[w].pc   = "speaking",
                          !.workers[w].late = @ \/ probe.workers[w].stopped]
    /\ UNCHANGED <<session_state, doc, bm, ai>>

\* runAndWait returns: the chunk was spoken to its end, or the engine was
\* stopped
SpeakWorkerSpoke ==
    /\ \E w \in 1..Len(probe.workers) :
          /\ probe.workers[w].pc = "speaking"
          /\ probe' = [probe EXCEPT !.workers[w].pc = "loop",
                                    !.workers[w].k  = @ + 1]
    /\ UNCHANGED <<session_state, doc, bm, ai>>

\* _speak_worker, line 94
SpeakWorkerFinish ==
    /\ \E w \in 1..Len(probe.workers) :
          /\ probe.workers[w].pc = "finish"
          /\ probe' = [probe EXCEPT !.speaking = FALSE,
                                    !.workers[w].pc = "done"]
    /\ UNCHANGED <<session_state, doc, bm, ai>>

SpeechNext ==
    \/ Speak
    \/ StopSpeaking
    \/ SpeakWorkerStart
    \/ SpeakWorkerLock
    \/ SpeakWorkerCheck
    \/ SpeakWorkerSay
    \/ SpeakWorkerSpoke
    \/ SpeakWorkerFinish

SpeechSpec == SpeechInit /\ [][SpeechNext]_vars

(***************************************************************************)
(* The DocumentProcessor used on its own: loads with and without append,   *)
(* removals and unloads in any order, on a processor that starts empty.    *)
(***************************************************************************)

\* The call made last, the number of operations on the document set made so
\* far, and what the last call returned.
DocumentCall(op, ops, returned) ==
    [fn |-> "document_set", op |-> op, ops |-> ops, returned |-> returned]


DocumentInit ==
    /\ session_state = NewSession
    /\ doc = NewDocumentProcessor
    /\ bm = NewBookmarkManager
    /\ ai = NewAISummarizer
    /\ probe = DocumentCall("none", 0, TRUE)

\* load(filepath, append) on an entry of the designated folder; the
\* embedding index works or fails
LoadCall ==
    /\ probe.ops < MaxOps
    /\ \E filepath \in {Join(VOICE_DOCS_DIR, DeskEntries[i].name) : i \in 1..DeskMax},
          append \in BOOLEAN, chroma_ok \in BOOLEAN :
          \E r \in {Load(doc, filepath, append, chroma_ok)} :
             /\ doc' = r[1]
             /\ probe' = DocumentCall("load", probe.ops + 1, r[2])
    /\ UNCHANGED <<session_state, bm, ai>>

\* remove_file(file_id), for the ids given out so far and one never given
RemoveFileCall ==
    /\ probe.ops < MaxOps
    /\ \E file_id \in 1..doc.next_file_id, chroma_ok \in BOOLEAN :
          \E r \in {RemoveFile(doc, file_id, chroma_ok)} :
             /\ doc' = r[1]
             /\ probe' = DocumentCall("remove_file", probe.ops + 1, r[2])
    /\ UNCHANGED <<session_state, bm, ai>>

\* unload()
UnloadCall ==
    /\ probe.ops < MaxOps
    /\ \E chroma_ok \in BOOLEAN :
          \E r \in {Unload(doc, chroma_ok)} :
             /\ doc' = r[1]
             /\ probe' = DocumentCall("unload", probe.ops + 1, r[2])
    /\ UNCHANGED <<session_state, bm, ai>>

\* get_relevant_context(query, n_results), with what the embedding index
\* does during the call
GetRelevantContextCall ==
    /\ probe.op # "get_relevant_context"
    /\ \E query \in {"", "what is the budget"}, n_results \in {0, 1, 4, 12},
          chroma \in ChromaOutcomes :
          probe' = [fn        |-> "document_set",
                    op        |-> "get_relevant_context",
                    ops       |-> probe.ops,
                    query     |-> query,
                    n_results |-> n_results,
                    chroma    |-> chroma,
                    returned  |-> GetRelevantContext(doc, query, n_results, chroma)]
    /\ UNCHANGED <<session_state, doc, bm, ai>>

\* next_page()
NextPageCall ==
    /\ doc' = NextPage(doc)
    /\ probe' = DocumentCall("next_page", probe.ops, doc' # doc)
    /\ UNCHANGED <<session_state, bm, ai>>

\* prev_page()
PrevPageCall ==
    /\ doc' = PrevPage(doc)
    /\ probe' = DocumentCall("prev_page", probe.ops, doc' # doc)
    /\ UNCHANGED <<session_state, bm, ai>>

\* go_to_page(index), for an index before, in and after the page list
GoToPageCall ==
    /\ \E index \in (-1)..PageCount(doc) :
          /\ doc' = GoToPage(doc, index)
          /\ probe' = DocumentCall("go_to_page", probe.ops,
                                   0 <= index /\ index < PageCount(doc))
    /\ UNCHANGED <<session_state, bm, ai>>

\* The navigation and bookmark commands of POST /api/command (lines 612-647)
VoiceNavigationCall ==
    /\ \E text \in {"next page", "previous page", "go to page 2", "first page",
                     "last page", "bookmark this", "go to bookmark"} :
          \E out \in Calls(text) :
             /\ BookmarkTotal(out.bm) <= MaxBookmarks
             /\ doc' = out.doc
             /\ bm' = out.bm
             /\ probe' = DocumentCall("command", probe.ops, TRUE)
    /\ UNCHANGED <<session_state, ai>>

DocumentNext ==
    \/ LoadCall
    \/ RemoveFileCall
    \/ UnloadCall
    \/ GetRelevantContextCall
    \/ NextPageCall
    \/ PrevPageCall
    \/ GoToPageCall
    \/ VoiceNavigationCall

DocumentSpec == DocumentInit /\ [][DocumentNext]_vars

(***************************************************************************)
(* Properties of the command dispatcher.  Each is a predicate on the state  *)
(* the server is in and on every outcome a call of command can have from    *)
(* that state.                                                              *)
(***************************************************************************)

\* The utterances that contain one of the phrases, in any letter case.
Saying(phrases) == {text \in Utterances : AnyIn(phrases, Lower(text))}

BrowseUtterances == Saying({"open other file", "browse computer", "browse folders"})

HelpUtterances == Saying({"help"})

StopUtterances == Saying({"stop", "pause", "quiet"})

CancelUtterances == Saying({"cancel", "nevermind"})

NextUtterances == Saying({"next", "more", "continue"})

PreviousUtterances == Saying({"previous", "back"})

RepeatUtterances == Saying({"repeat", "say that again", "repeat names"})

ListingUtterances ==
    Saying({"search for", "find my", "look for", "locate",
            "open file", "upload document", "open document"})

\* The utterances that are no control phrase of the selection dialogue.
NonControlUtterances ==
    Utterances \ (BrowseUtterances \cup HelpUtterances \cup StopUtterances
                  \cup CancelUtterances \cup NextUtterances
                  \cup PreviousUtterances \cup RepeatUtterances)

\* The lower-cased name of a file without its extension, for the five
\* supported extensions.
Stem(name) ==
    IF SplitExt(Lower(name))[2] \in SupportedExt
    THEN SplitExt(Lower(name))[1]
    ELSE Lower(name)

\* The files whose stem the utterance contains.
NamedIn == [text \in Utterances |->
               {name \in KnownFiles : Contains(Stem(name), Lower(text))}]

\* The number extracted from the utterance is an ordinal of the listing.
ValidOrdinal(text, files) ==
    /\ Parsed[text].n # None
    /\ 1 <= Parsed[text].n
    /\ Parsed[text].n <= Len(files)

\* The first candidate of the listing that the utterance names, if any.
FirstNamed(text, files) ==
    LET hits == {i \in 1..Len(files) : files[i].name \in NamedIn[text]}
    IN  IF hits = {} THEN <<>>
        ELSE <<files[CHOOSE i \in hits : \A j \in hits : i <= j]>>

NotRecognized == "File not recognized. Please try say 'open file' again."

\* C1: while the session is awaiting, an utterance that is no cancel,
\* pagination or repeat phrase (and does not reach the browse or stop rule)
\* and that gives neither a valid ordinal nor the name of a candidate is
\* answered with the not-recognized message and leaves the session idle; and
\* while the session is idle no utterance loads a candidate, and only a
\* search or open-file utterance opens a listing again.
C1_ListingConsumed ==
    /\ session_state.awaiting_file =>
         \A text \in Utterances \ (CancelUtterances \cup NextUtterances
                                   \cup PreviousUtterances \cup RepeatUtterances
                                   \cup BrowseUtterances \cup StopUtterances) :
            (/\ ~ValidOrdinal(text, session_state.files)
             /\ FirstNamed(text, session_state.files) = <<>>) =>
                \A out \in Calls(text) :
                    /\ out.result.message = NotRecognized
                    /\ ~out.session.awaiting_file
                    /\ out.loads = <<>>
    /\ ~session_state.awaiting_file =>
         \A text \in Utterances : \A out \in Calls(text) :
            /\ out.loads = <<>>
            /\ out.session.awaiting_file => text \in ListingUtterances

\* C2: while the session is awaiting, every utterance without a cancel,
\* pagination or repeat phrase leaves the session idle.
C2_AwaitingConsumed ==
    session_state.awaiting_file =>
        \A text \in Utterances \ (CancelUtterances \cup NextUtterances
                                  \cup PreviousUtterances \cup RepeatUtterances) :
            \A out \in Calls(text) : ~out.session.awaiting_file

\* C3: while the session is awaiting, a non-control utterance leaves the
\* session idle; it either selects nothing and loads nothing, or calls
\* doc.load once, with the path of one candidate (the one of the ordinal when
\* the ordinal is valid), and then returns file_loaded when that load succeeds
\* and error when it fails.
C3_ResolutionLoadsOnce ==
    session_state.awaiting_file =>
        \A text \in NonControlUtterances :
            \A out \in Calls(text) :
                /\ ~out.session.awaiting_file
                /\ \/ /\ out.loads = <<>>
                      /\ out.result.message = NotRecognized
                      /\ out.doc = doc
                   \/ \E i \in 1..Len(session_state.files) :
                        /\ out.loads = <<session_state.files[i].path>>
                        /\ ValidOrdinal(text, session_state.files)
                              => i = Parsed[text].n
                        /\ \E ok \in BOOLEAN :
                             LET loaded == Load(doc, session_state.files[i].path,
                                                FALSE, ok)
                             IN  /\ out.doc = loaded[1]
                                 /\ out.result.action =
                                      IF loaded[2] THEN "file_loaded" ELSE "error"

\* C3 witness: a listing in which "one" opens the first candidate and
\* "Notes Two" selects a second candidate that cannot be loaded.
C3_Witness ==
    /\ session_state.awaiting_file
    /\ \E out \in Calls("one") :
          /\ out.result.action = "file_loaded"
          /\ out.loads = <<session_state.files[1].path>>
          /\ out.doc.file_path = session_state.files[1].path
          /\ ~out.session.awaiting_file
    /\ \E out \in Calls("Notes Two") :
          /\ out.result.action = "error"
          /\ out.loads = <<session_state.files[2].path>>
          /\ ~out.session.awaiting_file

\* C4: while the session is awaiting n candidates at offset o, an utterance
\* with next, more or continue and no browse, help, stop or cancel phrase
\* keeps the session awaiting the same candidates; the offset becomes o + 5
\* when o + 5 < n, and otherwise stays o with the end-of-list notice.
C4_NextPagination ==
    session_state.awaiting_file =>
        \A text \in NextUtterances \ (BrowseUtterances \cup HelpUtterances
                                      \cup StopUtterances \cup CancelUtterances) :
            \A out \in Calls(text) :
                /\ out.session.awaiting_file
                /\ out.session.files = session_state.files
                /\ IF session_state.files_offset + 5 < Len(session_state.files)
                   THEN out.session.files_offset = session_state.files_offset + 5
                   ELSE /\ out.session.files_offset = session_state.files_offset
                        /\ out.result.message =
                             "You are at the end of the list. Say 'previous' to go back."

\* C4 witness: the second window of a listing of six, reached by "next",
\* where a further "next" meets the end of the list.
C4_Witness ==
    /\ session_state.awaiting_file
    /\ Len(session_state.files) = 6
    /\ session_state.files_offset = 5
    /\ \E out \in Calls("next") :
          /\ out.session = session_state
          /\ out.result.message =
               "You are at the end of the list. Say 'previous' to go back."

\* C5: while the session is awaiting at offset o, an utterance with previous
\* or back and no browse, help, stop, cancel or next phrase keeps the session
\* awaiting the same candidates; at o = 0 the offset stays 0 with the
\* beginning-of-list notice, and otherwise it becomes max(0, o - 5).
C5_PreviousPagination ==
    session_state.awaiting_file =>
        \A text \in PreviousUtterances \ (BrowseUtterances \cup HelpUtterances
                                          \cup StopUtterances \cup CancelUtterances
                                          \cup NextUtterances) :
            \A out \in Calls(text) :
                /\ out.session.awaiting_file
                /\ out.session.files = session_state.files
                /\ IF session_state.files_offset = 0
                   THEN /\ out.session.files_offset = 0
                        /\ out.result.message =
                             "You are at the beginning of the list. Say 'next' for more."
                   ELSE out.session.files_offset =
                            Max(0, session_state.files_offset - 5)

\* C5 witness: from the second window "go back" returns to offset 0.
C5_Witness ==
    /\ session_state.awaiting_file
    /\ session_state.files_offset = 5
    /\ \E out \in Calls("go back") :
          /\ out.session.awaiting_file
          /\ out.session.files_offset = 0
          /\ out.session.files = session_state.files
          /\ out.result.message = "Listening for file selection..."

\* C6: while the session is awaiting, an utterance with a repeat phrase (and
\* no phrase of a rule tested before it) speaks the listing of the current
\* window again and leaves the session as it is.
C6_RepeatKeepsSession ==
    session_state.awaiting_file =>
        \A text \in RepeatUtterances \ (BrowseUtterances \cup HelpUtterances
                                        \cup StopUtterances \cup CancelUtterances
                                        \cup NextUtterances \cup PreviousUtterances) :
            \A out \in Calls(text) :
                /\ out.session = session_state
                /\ \A part \in {ListingParts(session_state.files,
                                             session_state.files_offset)[i] :
                                  i \in 1..Len(ListingParts(session_state.files,
                                                            session_state.files_offset))} :
                      \E j \in 1..Len(out.result.tts_text) :
                          out.result.tts_text[j] = part

\* C7: while the session is awaiting n candidates at any offset, a non-control
\* utterance whose number k satisfies 1 <= k <= n loads candidate k of the
\* whole listing, whatever names the utterance contains.
C7_OrdinalFirst ==
    session_state.awaiting_file =>
        \A text \in NonControlUtterances :
            ValidOrdinal(text, session_state.files) =>
                \A out \in Calls(text) :
                    out.loads = <<session_state.files[Parsed[text].n].path>>

\* C7 witness: with the first window of five on show, "six" opens the sixth
\* candidate, and "Notes Two" the second although it names another one.
C7_Witness ==
    /\ session_state.awaiting_file
    /\ session_state.files_offset = 0
    /\ Len(session_state.files) >= 6
    /\ \E out \in Calls("six") :
          /\ out.loads = <<session_state.files[6].path>>
          /\ out.doc.file_path = session_state.files[6].path
    /\ \E i \in 1..Len(session_state.files) :
          /\ i # 2
          /\ session_state.files[i].name \in NamedIn["Notes Two"]
          /\ \E out \in Calls("Notes Two") :
                out.loads = <<session_state.files[2].path>>

\* C8: while the session is awaiting, a non-control utterance without a valid
\* ordinal loads the first candidate, in list order, whose lower-cased name
\* without extension it contains, and loads nothing when it contains none.
C8_NameFallback ==
    session_state.awaiting_file =>
        \A text \in NonControlUtterances :
            ~ValidOrdinal(text, session_state.files) =>
                \A out \in Calls(text) :
                    IF FirstNamed(text, session_state.files) = <<>>
                    THEN out.loads = <<>>
                    ELSE out.loads = <<FirstNamed(text, session_state.files)[1].path>>

\* C9: in every state, an utterance with a browse phrase returns
\* open_file_dialog, leaves the session idle and leaves the document
\* processor (the loaded pages and the current page) as it is.
C9_BrowseOverride ==
    \A text \in BrowseUtterances :
        \A out \in Calls(text) :
            /\ out.result.action = "open_file_dialog"
            /\ ~out.session.awaiting_file
            /\ out.doc = doc
            /\ out.loads = <<>>

\* C9 witness: a listing is open over a loaded document when an utterance
\* with a browse phrase and a stop phrase arrives.
C9_Witness ==
    /\ session_state.awaiting_file
    /\ PageCount(doc) > 0
    /\ \E out \in Calls("Browse Computer and stop") :
          /\ out.result.action = "open_file_dialog"
          /\ ~out.session.awaiting_file
          /\ out.doc = doc

\* C10: in every state, an utterance with stop, pause or quiet leaves the
\* session idle.
C10_StopEndsSession ==
    \A text \in StopUtterances :
        \A out \in Calls(text) : ~out.session.awaiting_file

NoDocumentLoaded == "No document loaded."

\* C11: while the session is idle and no document is loaded, every utterance
\* without a browse, stop, search or open-file phrase returns the error
\* "No document loaded." and leaves the session and the document processor
\* as they are.
C11_FailClosedWithoutDocument ==
    (~session_state.awaiting_file /\ PageCount(doc) = 0) =>
        \A text \in Utterances \ (BrowseUtterances \cup StopUtterances
                                  \cup ListingUtterances) :
            \A out \in Calls(text) :
                /\ out.result.action = "error"
                /\ out.result.message = NoDocumentLoaded
                /\ out.session = session_state
                /\ out.doc = doc

SearchUtterances == Saying({"search for", "find my", "look for", "locate"})

\* What the locator returns for each well-known directory that exists, with
\* the limit of two per directory.
PerDirectory(n, profile, target) ==
    [i \in 1..Len(SearchDirs) |->
        IF DirExists(FileSystem(n), SearchDirs[i])
        THEN SearchFiles(FileSystem(n), profile, target, SearchDirs[i], 2)
        ELSE <<>>]

\* top is the merge of the per-directory results, best score first, cut to
\* five: it holds Min(5, total) distinct results of the directories, in
\* non-increasing score order, and no result left out scores higher than
\* the last one kept.
IsTopFive(top, per) ==
    LET merged == {<<i, j>> \in (1..Len(per)) \X (1..2) : j <= Len(per[i])}
    IN  /\ Len(top) = Min(5, Cardinality(merged))
        /\ \A k \in 1..Len(top) : \E m \in merged : top[k] = per[m[1]][m[2]]
        /\ Cardinality({top[k] : k \in 1..Len(top)}) = Len(top)
        /\ \A k \in 1..(Len(top) - 1) : top[k].score >= top[k + 1].score
        /\ \A m \in merged :
              (\A k \in 1..Len(top) : top[k] # per[m[1]][m[2]])
                  => per[m[1]][m[2]].score <= top[Len(top)].score

\* IsTopFive for every search the model makes.
TopFiveOf ==
    [n \in DeskSizes |-> [profile \in ScorerProfiles |-> [target \in SearchTargets |->
        IsTopFive(TopMatchesOf[n][profile][target],
                  PerDirectory(n, profile, target))]]]

\* C12: from the idle session, an utterance with a search phrase and no
\* browse, help or stop phrase ends in one of the results of the search over
\* the existing well-known directories (two per directory, merged, sorted by
\* score, at most five); with at least one candidate the session awaits
\* exactly these candidates in this order at offset 0 and the prompt numbers
\* them from 1, and with none the session stays as it is.
C12_GlobalSearchOpensSession ==
    ~session_state.awaiting_file =>
        \A text \in SearchUtterances \ (BrowseUtterances \cup HelpUtterances
                                        \cup StopUtterances) :
            \A out \in Calls(text) :
                \E n \in DeskSizes, profile \in ScorerProfiles,
                   target \in GeminiAnswers(Parsed[text].c) :
                    LET top == TopMatchesOf[n][profile][target]
                    IN  /\ TopFiveOf[n][profile][target]
                        /\ out.doc = doc
                        /\ out.loads = <<>>
                        /\ IF Len(top) = 0
                           THEN out.session = session_state
                           ELSE /\ out.session.awaiting_file
                                /\ out.session.files_offset = 0
                                /\ Len(out.session.files) = Len(top)
                                /\ \A i \in 1..Len(top) :
                                      /\ out.session.files[i].name = top[i].filename
                                      /\ out.session.files[i].path = top[i].path
                                      /\ StartsWith(out.result.tts_text[i + 1],
                                                    ToString(i) \o ": ")

\* C12 witness: an idle session that still holds the offset of an earlier
\* listing; one search finds candidates in two directories, another none.
C12_Witness ==
    /\ ~session_state.awaiting_file
    /\ session_state.files_offset = 5
    /\ \E out \in Calls("search for presentation guide") :
          /\ out.session.awaiting_file
          /\ out.session.files_offset = 0
          /\ Len(out.session.files) >= 2
          /\ \E i, j \in 1..Len(out.session.files) :
                /\ StartsWith(out.session.files[i].path, UserHome)
                /\ StartsWith(out.session.files[j].path, VOICE_DOCS_DIR)
    /\ \E out \in Calls("search for presentation guide") :
          out.session = session_state

OpenFileUtterances == Saying({"open file", "upload document", "open document"})

\* The documents that lie directly in the VoiceRead_Docs folder of n entries.
DeskDocuments(n) ==
    {name \in {DeskEntries[i].name : i \in 1..n} :
        HasSuffix(name, {".pdf", ".docx", ".doc"})}

DeskDocumentsOf == [n \in DeskSizes |-> DeskDocuments(n)]

NoDocumentsFound ==
    "No documents found in VoiceRead_Docs folder. Say 'open other file' to browse your computer."

\* C13: from the idle session, an utterance with an open-file phrase and no
\* browse, help, stop or search phrase looks only at the VoiceRead_Docs
\* folder: when it holds at least one document the session awaits exactly the
\* documents of that folder at offset 0, and when it holds none the session
\* stays as it is and the no-documents message is returned.
C13_LocalOpenFile ==
    ~session_state.awaiting_file =>
        \A text \in OpenFileUtterances \ (BrowseUtterances \cup HelpUtterances
                                          \cup StopUtterances \cup SearchUtterances) :
            \A out \in Calls(text) :
                \E n \in DeskSizes :
                    /\ out.doc = doc
                    /\ out.loads = <<>>
                    /\ IF DeskDocumentsOf[n] = {}
                       THEN /\ out.session = session_state
                            /\ out.result.message = NoDocumentsFound
                       ELSE /\ out.session.awaiting_file
                            /\ out.session.files_offset = 0
                            /\ Len(out.session.files) = Cardinality(DeskDocumentsOf[n])
                            /\ {out.session.files[i].name :
                                    i \in 1..Len(out.session.files)} = DeskDocumentsOf[n]
                            /\ \A i \in 1..Len(out.session.files) :
                                  out.session.files[i].path =
                                      Join(VOICE_DOCS_DIR, out.session.files[i].name)

\* C13 witness: an idle session that still holds the offset of an earlier
\* listing; "open file" lists six documents of the folder when it is full and
\* answers with the no-documents message when it is empty.
C13_Witness ==
    /\ ~session_state.awaiting_file
    /\ session_state.files_offset = 5
    /\ \E out \in Calls("open file") :
          /\ out.session.awaiting_file
          /\ out.session.files_offset = 0
          /\ Len(out.session.files) = 6
    /\ \E out \in Calls("open file") :
          /\ out.session = session_state
          /\ out.result.message = NoDocumentsFound

\* The path lies below root, and no directory between root and the file is
\* hidden.
BelowUnhidden(path, root) ==
    /\ StartsWith(path, root \o "/")
    /\ LET rel  == SubSeq(path, Len(root) + 2, Len(path))
           dirs == SubSeq(rel, 1, LastIndexOf(rel, "/"))
       IN  ~StartsWith(dirs, ".") /\ ~Contains("/.", dirs)

\* The path is a file of the tree.
IsFileOf(path, fs) ==
    \E d \in DOMAIN fs : \E i \in 1..Len(fs[d].files) : path = Join(d, fs[d].files[i])

\* C14: the list search_files returns is no longer than limit, holds no path
\* twice, and every path in it is a file of the tree with a supported
\* extension that lies below the search root, outside of every hidden
\* directory met on the way down.
C14_SearchFilesResult ==
    (probe.fn = "search_files" /\ probe.done) =>
        /\ Len(probe.result) <= probe.limit
        /\ \A i, j \in 1..Len(probe.result) :
              i # j => probe.result[i].path # probe.result[j].path
        /\ \A i \in 1..Len(probe.result) :
              /\ HasSuffix(probe.result[i].path, SupportedExt)
              /\ IsFileOf(probe.result[i].path, FileSystem(probe.desk_n))
              /\ BelowUnhidden(probe.result[i].path, probe.search_dir)

\* C14 witness: a search below Documents, where a hidden directory holds a
\* matching document and two directories hold a file of the same name, that
\* fills the limit of three.
C14_Witness ==
    /\ probe.fn = "search_files"
    /\ probe.done
    /\ probe.search_dir = Join(UserHome, "Documents")
    /\ probe.target_filename = "guide"
    /\ probe.limit = 3
    /\ Len(probe.result) = 3

ChunksOf(pages) == Flatten([i \in 1..Len(pages) |-> PageChunks(pages[i])])

\* C16: after every operation on the document set the index holds no chunk
\* that is not a chunk of the current page list, and a live index holds
\* exactly the chunks of the current page list.
C16_IndexFresh ==
    (probe.fn = "document_set") =>
        /\ \A i \in 1..Len(doc.collection.docs) :
              \E j \in 1..Len(ChunksOf(doc.pages)) :
                 ChunksOf(doc.pages)[j] = doc.collection.docs[i]
        /\ doc.collection # NoCollection =>
              doc.collection.docs = ChunksOf(doc.pages)

\* C17: a page without words gets no chunk, a page of 1 to 299 words gets
\* exactly one chunk, and the windows of every page start at the word offsets
\* 0, 250, 500, ... and hold at most 300 words each.
C17_ChunksPerPage ==
    (probe.fn = "page_chunks" /\ probe.done) =>
        /\ probe.words = 0 => Len(probe.result) = 0
        /\ probe.words \in 1..299 => Len(probe.result) = 1
        /\ \A k \in 1..Len(probe.result) :
              /\ probe.result[k].start = 250 * (k - 1)
              /\ probe.result[k].size <= 300

\* The first 10,000 characters of the texts of the pages, in page order, with
\* a blank line between one page and the next.
FallbackText == TakeChars(JoinPieces(List([i \in 1..Len(doc.pages) |->
                              Piece(doc.pages[i].text.src, doc.pages[i].text.no, 0,
                                    CharsOf(doc.pages[i].text.words))]),
                          "\n\n"), 10000)

\* C18: with no index, or with an index that holds no chunk, and an
\* embedding index that does not fail, get_relevant_context returns the
\* first 10,000 characters of the full text, whatever the query and the
\* number of results asked for.
C18_FallbackWithoutIndex ==
    (/\ probe.fn = "document_set"
     /\ probe.op = "get_relevant_context"
     /\ probe.chroma.count_ok
     /\ doc.collection = NoCollection \/ Len(doc.collection.docs) = 0)
    => probe.returned = Returned(FallbackText)

\* C18 witness: three files were appended and the index could not be built;
\* the text is longer than 10,000 characters and the call returns a proper
\* prefix of it.
C18_Witness ==
    /\ probe.fn = "document_set"
    /\ probe.op = "get_relevant_context"
    /\ doc.collection = NoCollection
    /\ Len(doc.pages) = 6
    /\ ~probe.returned.raised
    /\ Len(probe.returned.value) = 11
    /\ probe.returned.value[11].chars < CharsOf(doc.pages[6].text.words)

\* C19: get_relevant_context never raises: when the embedding index fails in
\* count() or in query(), the call returns the first 10,000 characters of the
\* full text.
C19_NeverRaises ==
    (/\ probe.fn = "document_set"
     /\ probe.op = "get_relevant_context")
    => /\ ~probe.returned.raised
       /\ (/\ doc.collection # NoCollection
           /\ \/ ~probe.chroma.count_ok
              \/ /\ Len(doc.collection.docs) > 0
                 /\ probe.n_results > 0
                 /\ probe.chroma.query = "raises")
          => probe.returned = Returned(FallbackText)

\* C20: with an empty history contextualize_query returns the question as it
\* was given and sends nothing to the Groq client.
C20_EmptyHistory ==
    (/\ probe.fn = "contextualize_query"
     /\ probe.done
     /\ probe.history = <<>>)
    => /\ probe.result.value = probe.question
       /\ probe.result.requests = <<>>

\* C20 witness: a summarizer with its client, a question with blanks around
\* it and a Groq client that would answer: the question comes back as given.
C20_Witness ==
    /\ probe.fn = "contextualize_query"
    /\ probe.done
    /\ probe.history = <<>>
    /\ IsReady(ai)
    /\ probe.groq.ok
    /\ probe.question = " what does it mean "
    /\ probe.result.value = " what does it mean "

\* The Groq client fails while the question of the request is rewritten: it
\* raises or answers without text.
ContextualizationFails ==
    /\ probe.fn = "ask"
    /\ probe.status = 200
    /\ Len(probe.history) > 0
    /\ ~probe.groq.ok \/ probe.groq.content = NoText

\* The names of the calls an ask request has made, in order.
CallNames == [i \in 1..Len(probe.calls) |-> probe.calls[i].to]

\* C21: when the Groq client fails during contextualization the standalone
\* question is the question of the request, and a request whose embedding
\* index answers goes on to retrieval and to generation.
C21_ContextualizationFailure ==
    ContextualizationFails =>
        /\ probe.pc \notin {"guards", "contextualize"} =>
              probe.standalone_question = probe.question
        /\ probe.pc \in {"generate", "relay", "done", "raised"} =>
              /\ Len(probe.calls) >= 2
              /\ probe.calls[2].to = "get_relevant_context"
              /\ probe.calls[2].query = probe.question
        /\ probe.pc = "raised" =>
              doc.collection # NoCollection /\ ~probe.chroma.count_ok
        /\ probe.pc \in {"relay", "done"} =>
              CallNames = <<"contextualize_query", "get_relevant_context", "ask">>

\* C21 witness: the rewriting answered without text, and the request was
\* served to its end with fragments of the answer.
C21_Witness ==
    /\ ContextualizationFails
    /\ probe.groq.ok
    /\ probe.pc = "done"
    /\ probe.standalone_question = "what does it mean"
    /\ Len(probe.relayed) = 2

\* C22: an ask request that passes the guards calls contextualize_query with
\* the question and the history, then get_relevant_context with the
\* standalone question and n_results = 5, then ask with the question of the
\* request, the retrieved context and the history as given; the fragments of
\* ask reach the caller in order and unchanged.  A request refused by a guard
\* (AI not ready: 503, no document: 400) makes no call.
C22_PipelineOrder ==
    (probe.fn = "ask") =>
        /\ probe.pc # "guards" =>
              probe.status = (IF ~IsReady(ai) THEN 503
                              ELSE IF PageCount(doc) = 0 THEN 400 ELSE 200)
        /\ probe.status # 200 => probe.calls = <<>> /\ probe.relayed = <<>>
        /\ \E n \in 0..3 :
              CallNames = SubSeq(<<"contextualize_query", "get_relevant_context", "ask">>,
                                 1, n)
        /\ Len(probe.calls) >= 1 =>
              /\ probe.calls[1].question = probe.question
              /\ probe.calls[1].history = probe.history
        /\ Len(probe.calls) >= 2 =>
              /\ probe.calls[2].query =
                    ContextualizeQuery(ai, probe.question, probe.history, probe.groq).value
              /\ probe.calls[2].n_results = 5
        /\ Len(probe.calls) >= 3 =>
              /\ probe.calls[3].question = probe.question
              /\ probe.calls[3].history = probe.history
              /\ Returned(probe.calls[3].context_text) =
                    GetRelevantContext(doc, probe.calls[2].query, 5, probe.chroma)
              /\ probe.relayed \o probe.pending =
                    AskStream(ai, probe.question, probe.calls[3].context_text,
                              probe.history, probe.stream).fragments
        /\ probe.pc = "done" => probe.pending = <<>>

\* C22 witness: a follow-up question was rewritten, the rewritten question
\* went to retrieval, and the three fragments of the answer were relayed.
C22_Witness ==
    /\ probe.fn = "ask"
    /\ probe.pc = "done"
    /\ Len(probe.calls) = 3
    /\ probe.calls[2].query = "what does the budget mean"
    /\ probe.calls[3].question = "what does it mean"
    /\ probe.relayed = <<"The budget ", "is 40.", "Could not answer: error">>

\* C23: a stream of AISummarizer.ask read to its end has delivered at least
\* one fragment: the fragments of the Groq client, followed by an apology
\* when the client failed in the middle of its stream, or the apology alone
\* when the client failed at the call.
C23_StreamDelivers ==
    (probe.fn = "ask_stream" /\ probe.done) =>
        /\ Len(probe.result.fragments) >= 1
        /\ ~probe.groq.call_ok =>
              probe.result.fragments = <<"Could not answer: error">>
        /\ (probe.groq.call_ok /\ ~probe.groq.ends) =>
              probe.result.fragments[Len(probe.result.fragments)]
                 = "Could not answer: error"

\* The page numbers said in digits after "go to page".
PageNumbers == {0, 1, 2, 9}

\* C24: with a document loaded and the session idle, "go to page N" makes
\* page N the current page (index N - 1) and returns its label and its text
\* when the document has a page N; otherwise, and when no number is said,
\* the document processor stays as it is.
C24_GoToPage ==
    (~session_state.awaiting_file /\ PageCount(doc) > 0) =>
        /\ \A N \in PageNumbers :
              \A out \in Calls("go to page " \o ToString(N)) :
                 /\ out.result.action = "navigate"
                 /\ out.session = session_state
                 /\ out.bm = bm
                 /\ IF 1 <= N /\ N <= PageCount(doc)
                    THEN /\ out.doc = [doc EXCEPT !.current_page = N - 1]
                         /\ out.result.message = doc.pages[N].label
                         /\ out.result.page_state[1].page = N - 1
                         /\ out.result.page_state[1].label = doc.pages[N].label
                         /\ out.result.page_state[1].text = <<doc.pages[N].text>>
                    ELSE out.doc = doc
        /\ \A out \in Calls("go to page") :
              out.result.action = "navigate" /\ out.doc = doc

\* C24 witness: on the first of two pages, "go to page 2" leads to the
\* second page, and "go to page 9" leaves the first page current.
C24_Witness ==
    /\ ~session_state.awaiting_file
    /\ PageCount(doc) = 2
    /\ doc.current_page = 0
    /\ \E out \in Calls("go to page 2") :
          out.doc.current_page = 1 /\ out.result.message = doc.pages[2].label
    /\ \E out \in Calls("go to page 9") : out.doc.current_page = 0

\* C25: with a document loaded, the session idle and a bookmark saved,
\* "go to bookmark" and "my bookmark" make the page of the last bookmark the
\* current page and leave the bookmarks as they are.
C25_GoToBookmark ==
    (/\ ~session_state.awaiting_file
     /\ PageCount(doc) > 0
     /\ Len(GetBookmarks(bm)) > 0)
    => \A text \in {"go to bookmark", "my bookmark"} :
          \A out \in Calls(text) :
             /\ out.result.action = "navigate"
             /\ out.doc = GoToPage(doc, GetBookmarks(bm)[Len(GetBookmarks(bm))].page)
             /\ out.bm = bm

\* The utterances that say a phrase of a rule for the loaded document.
DocumentUtterances ==
    Saying({"read document", "read page", "read this", "start reading",
            "next page", "forward", "previous page", "prev page", "go back",
            "go to page", "jump to page", "first page", "beginning",
            "last page", "end of", "summary", "summarize", "bookmark"})

\* The utterances that say no phrase of any rule.
UnmatchedUtterances ==
    NonControlUtterances \ (ListingUtterances \cup DocumentUtterances)

C27_RebuildAtomic ==
    (probe.fn = "rebuild" /\ probe.reader = "done") =>
        \E d \in {probe.before, probe.after} :
            probe.returned =
                GetRelevantContext(d, "", probe.n_results,
                    [count_ok |-> TRUE, query |-> probe.ranking])

\* C28: in every reachable state the pagination offset is a multiple of
\* five, is not negative and is not greater than the number of stored
\* candidates.
C28_OffsetInRange ==
    /\ session_state.files_offset % 5 = 0
    /\ session_state.files_offset >= 0
    /\ session_state.files_offset <= Len(session_state.files)

\* C29: whenever the session is awaiting, it holds at least one candidate
\* and its offset points at a candidate, so the window that is read out is
\* never empty.
C29_WindowNotEmpty ==
    session_state.awaiting_file =>
        /\ Len(session_state.files) > 0
        /\ 0 <= session_state.files_offset
        /\ session_state.files_offset < Len(session_state.files)
        /\ Len(Slice(session_state.files, session_state.files_offset,
                     session_state.files_offset + 5)) >= 1

\* C29 witness: the session is awaiting on the last window of a listing,
\* which holds one candidate.
C29_Witness ==
    /\ session_state.awaiting_file
    /\ session_state.files_offset = 5
    /\ Len(Slice(session_state.files, session_state.files_offset,
                 session_state.files_offset + 5)) = 1

\* C30: the candidates a global search merges from the searched directories
\* hold no filesystem path twice, wherever the server is installed.
C30_DistinctPaths ==
    (probe.fn = "top_matches" /\ probe.done) =>
        \A i, j \in 1..Len(probe.result) :
            probe.result[i].path = probe.result[j].path => i = j

\* C31: every candidate search_files returns has a score in 0..100, every
\* candidate that is not an exact match has a score above 35, and a candidate
\* has score 100 only if its basename contains the target, case ignored.
C31_ScoreRange ==
    (probe.fn = "search_files" /\ probe.done) =>
        \A i \in 1..Len(probe.result) :
            /\ probe.result[i].score \in 0..100
            /\ \/ Contains(Lower(probe.target_filename),
                           Lower(probe.result[i].filename))
               \/ probe.result[i].score > 35
            /\ probe.result[i].score = 100 =>
                  Contains(Lower(probe.target_filename),
                           Lower(probe.result[i].filename))

\* The eligible files below the search root whose basename contains the
\* target, case ignored.
EligibleExact(fs, search_dir, target_filename) ==
    SelectSeq(WalkFiles(fs, search_dir),
              LAMBDA f : Contains(Lower(target_filename), Lower(Basename(f))))

\* C32: when at most limit eligible files have a basename that contains the
\* target, each of them is in the result of search_files with score 100.
C32_ExactKept ==
    (probe.fn = "search_files" /\ probe.done) =>
        \A exact \in {EligibleExact(FileSystem(probe.desk_n), probe.search_dir,
                                    probe.target_filename)} :
            Len(exact) <= probe.limit =>
                \A k \in 1..Len(exact) :
                    \E i \in 1..Len(probe.result) :
                        /\ probe.result[i].path = exact[k]
                        /\ probe.result[i].score = 100

\* The passages the index returns for a request of k chunks, joined in ranked
\* order with the separator.
RankedPassages(k) ==
    JoinPieces(List([i \in 1..k |->
                   LET c == IF probe.chroma.query = "front"
                            THEN doc.collection.docs[i]
                            ELSE doc.collection.docs[Len(doc.collection.docs) + 1 - i]
                   IN  Piece(c.src, c.no, c.start, CharsOf(c.size))]),
               "\n...\n")

\* C33: with an index of c > 0 chunks that answers, get_relevant_context(q, k)
\* returns the min(k, c) best passages joined in ranked order with the
\* separator; when the query yields no passage, k = 0 included, it returns
\* the first 10,000 characters of the full text.
C33_IndexedContext ==
    (/\ probe.fn = "document_set"
     /\ probe.op = "get_relevant_context"
     /\ doc.collection # NoCollection
     /\ probe.chroma.count_ok
     /\ probe.chroma.query # "raises"
     /\ Len(doc.collection.docs) > 0)
    => IF probe.chroma.query = "empty" \/ probe.n_results = 0
       THEN probe.returned = Returned(FallbackText)
       ELSE probe.returned =
               Returned(RankedPassages(Min(probe.n_results,
                                           Len(doc.collection.docs))))

\* len(s) of a text made of pieces
CharCount(pieces) ==
    LET Upto[i \in 0..Len(pieces)] ==
            IF i = 0 THEN 0 ELSE Upto[i - 1] + pieces[i].chars
    IN  Upto[Len(pieces)]

\* C34: the text get_relevant_context returns is never longer than 10,000
\* characters, with an index and without one.
C34_ContextBudget ==
    (/\ probe.fn = "document_set"
     /\ probe.op = "get_relevant_context"
     /\ ~probe.returned.raised)
    => CharCount(probe.returned.value) <= 10000

\* C35: an utterance with the English word for N in 1..20 yields N from
\* num_from and from _extract_number, whether digits follow or not, and an
\* utterance with neither a number word nor digits yields no number.
C35_NumberWords ==
    (probe.fn = "extract_number" /\ probe.done) =>
        /\ probe.word > 0 =>
              /\ probe.result.api = probe.word
              /\ probe.result.assistant = probe.word
        /\ (probe.word = 0 /\ probe.digits = "") =>
              /\ probe.result.api = None
              /\ probe.result.assistant = None

\* C36: while the session is awaiting over a loaded document, an utterance
\* that reaches the selection dialogue and selects no file leaves the
\* document, its current page and the bookmarks as they are.
C36_DialogueKeepsDocument ==
    (session_state.awaiting_file /\ PageCount(doc) > 0) =>
        \A text \in Utterances \ (BrowseUtterances \cup HelpUtterances
                                  \cup StopUtterances) :
            \A out \in Calls(text) :
                out.loads = <<>> => (out.doc = doc /\ out.bm = bm)

\* C36 witness: the first window of a listing of six is open over a document
\* that stands on the first of its two pages; "next page" moves the window
\* and "go back" keeps it, and neither moves the page.
C36_Witness ==
    /\ session_state.awaiting_file
    /\ Len(session_state.files) = 6
    /\ session_state.files_offset = 0
    /\ PageCount(doc) = 2
    /\ doc.current_page = 0
    /\ \E out \in Calls("next page") :
          out.session.files_offset = 5 /\ out.doc.current_page = 0
    /\ \E out \in Calls("go back") :
          out.session.files_offset = 0 /\ out.doc.current_page = 0
    /\ \E out \in Calls("cancel") : out.doc = doc /\ out.bm = bm
    /\ \E out \in Calls("banana") : out.loads = <<>> /\ out.doc = doc

\* C37: the current page is never negative and, when the processor holds
\* pages, it is the index of one of them; next_page on the last page and
\* prev_page on the first page leave the processor as it is.
C37_CurrentPageInRange ==
    /\ doc.current_page >= 0
    /\ PageCount(doc) > 0 => doc.current_page < PageCount(doc)
    /\ doc.current_page = PageCount(doc) - 1 => NextPage(doc) = doc
    /\ doc.current_page = 0 => PrevPage(doc) = doc

\* C37 witness: remove_file has taken away the file whose page was current,
\* and the current page is the last page that is left, not the first.
C37_Witness ==
    /\ probe.fn = "document_set"
    /\ probe.op = "remove_file"
    /\ probe.returned
    /\ PageCount(doc) > 1
    /\ doc.current_page = PageCount(doc) - 1
    /\ Len(doc.loaded_files) = 1

\* C38: whatever the processor holds, a load(path, append=False) of a file of
\* the designated folder that returns False leaves it with no page and with
\* current page 0.
C38_FailedLoadIsEmpty ==
    (probe.fn = "document_set") =>
        \A i \in 1..Len(DeskEntries), chroma_ok \in BOOLEAN :
            \A r \in {Load(doc, Join(VOICE_DOCS_DIR, DeskEntries[i].name),
                           FALSE, chroma_ok)} :
                ~r[2] => (PageCount(r[1]) = 0 /\ r[1].current_page = 0)

\* C39: no worker begins to speak a chunk after stop_speaking was called
\* since the worker was started.
C39_StopHaltsSpeech ==
    (probe.fn = "speech") =>
        \A w \in 1..Len(probe.workers) : ~probe.workers[w].late

====
